---------------------------- MODULE Spec2Model ----------------------------
(***************************************************************************)
(* A model of auto_vlan: hardware detection (hw_detect.py), the bridge     *)
(* mode strategies and the port resolver (bridge_modes.py), the role       *)
(* registry (roles.py), and the port allocator and the run of the          *)
(* orchestrator (orchestrator.py).                                         *)
(*                                                                         *)
(* Python values are represented as follows.                               *)
(*   str    a sequence of one-character strings: "lan1" is                 *)
(*          <<"l","a","n","1">>                                            *)
(*   int    an integer                                                     *)
(*   list   a sequence                                                     *)
(*   tuple  a sequence                                                     *)
(*   None   None for an absent text, NoSwitch for an absent SwitchInfo      *)
(***************************************************************************)
EXTENDS Integers, Sequences, FiniteSets, TLC

VARIABLES
    pc,           \* position of the modelled call: "start", then its outcome
    uci,          \* the UciExecutor: is_export and the answers of query()
    shell,        \* what subprocess.run does for the swconfig probe
    hw,           \* the HardwareInfo detected / passed in
    cli_calls,    \* number of subprocess.run invocations so far
    raised,       \* the exception that left the call, "none" if it returned
    plan,         \* the list of NetworkConfig as loaded, before allocation
    networks,     \* the list of NetworkConfig the run works on (ports mutable)
    user_ports,   \* _resolve_ports argument user_ports
    result,       \* value returned by _resolve_ports
    commands,     \* the uci calls made, in order: queries, the statements of
                  \* the bridge strategy, commits
    net_index,    \* run(): position in networks of the network being processed
    calls,        \* run(): the calls it has made, in order
    proxy_cfg,    \* run(): the ProxyConfig loaded with the plan, or NoProxy
    wifi_table    \* run(): the WifiInfo collected from the WiFi configurator

vars == <<pc, uci, shell, hw, cli_calls, raised, plan, networks, user_ports, result, commands,
          net_index, calls, proxy_cfg, wifi_table>>

---------------------------------------------------------------------------
(* Bounds of the model                                                     *)

\* tokens in one user port list
MaxTokens == 2
\* physical LAN ports of a profile handed to the resolver
MaxPorts == 3
\* physical LAN ports of a profile handed to the allocator
MaxAllocPorts == 4
\* networks of a plan
MaxNets == 4
\* tokens and line breaks of the switch_vlan dump the detector reads
MaxVlanSymbols == 4
\* port names in the answer to a DSA port list query
MaxDsaNames == 3
\* networks in a plan of run()
MaxRunNets == 2
MaxAgreeNets == 3

---------------------------------------------------------------------------
(* Python text primitives                                                  *)

None == <<"None">>
NoSwitch == [none |-> TRUE]
\* Optional[ProxyConfig] and Optional[WifiConfig] when they are None
NoProxy == [none |-> TRUE]
NoWifi == [none |-> TRUE]

Digits == <<"0", "1", "2", "3", "4", "5", "6", "7", "8", "9">>
Upper == <<"A", "E", "H", "L", "N", "T">>
Lower == <<"a", "e", "h", "l", "n", "t">>
\* the characters of the model in code point order (str comparison)
CodePoints == <<"\n", " ", "'", "+", "-", ".", "0", "1", "2", "3", "4", "5", "6",
                "7", "8", "9", ":", "=", "A", "E", "H", "L", "N", "P", "T", "a",
                "c", "e", "g", "h", "i", "l", "n", "o", "p", "r", "s", "t", "u", "w",
                "x", "y">>
Whitespace == {" ", "\n"}

IsDigit(c) == \E i \in 1..10 : Digits[i] = c
DigitVal(c) == (CHOOSE i \in 1..10 : Digits[i] = c) - 1
Ord(c) == CHOOSE i \in 1..Len(CodePoints) : CodePoints[i] = c

\* bool(x) of an optional text
Truthy(x) == x # None /\ x # <<>>

\* a or b
Or(a, b) == IF Truthy(a) THEN a ELSE b

\* c.lower() of one character
LowerChar(c) ==
    IF \E i \in 1..Len(Upper) : Upper[i] = c
    THEN Lower[CHOOSE i \in 1..Len(Upper) : Upper[i] = c]
    ELSE c

\* s.lower()
StrLower(s) == [i \in 1..Len(s) |-> LowerChar(s[i])]

\* s.startswith(prefix)
StartsWith(s, prefix) ==
    Len(s) >= Len(prefix) /\ SubSeq(s, 1, Len(prefix)) = prefix

\* s.endswith(suffix)
EndsWith(s, suffix) ==
    Len(s) >= Len(suffix) /\ SubSeq(s, Len(s) - Len(suffix) + 1, Len(s)) = suffix

\* s[from:]
Drop(s, n) == SubSeq(s, n + 1, Len(s))

\* index of the first occurrence of sub in s at or after position from, 0 if none
Find(s, sub, from) ==
    LET hits == {i \in from..(Len(s) - Len(sub) + 1) : SubSeq(s, i, i + Len(sub) - 1) = sub}
    IN  IF hits = {} THEN 0 ELSE CHOOSE i \in hits : \A j \in hits : i <= j

\* sub in s
Contains(s, sub) == Find(s, sub, 1) # 0

\* s.split(sep)[0]
SplitFirst(s, sep) ==
    LET i == Find(s, sep, 1) IN IF i = 0 THEN s ELSE SubSeq(s, 1, i - 1)

\* s.split(sep, 1)[1]   (only used when sep in s)
SplitOnceRest(s, sep) == Drop(s, Find(s, sep, 1) + Len(sep) - 1)

\* s.replace(old, "")
RECURSIVE Remove(_, _)
Remove(s, old) ==
    LET i == Find(s, old, 1)
    IN  IF i = 0 THEN s
        ELSE SubSeq(s, 1, i - 1) \o Remove(Drop(s, i + Len(old) - 1), old)

\* s.lstrip(chars), s.rstrip(chars), s.strip(chars)
RECURSIVE LStrip(_, _)
LStrip(s, chars) ==
    IF s # <<>> /\ s[1] \in chars THEN LStrip(Tail(s), chars) ELSE s
RECURSIVE RStrip(_, _)
RStrip(s, chars) ==
    IF s # <<>> /\ s[Len(s)] \in chars THEN RStrip(SubSeq(s, 1, Len(s) - 1), chars) ELSE s
Strip(s, chars) == RStrip(LStrip(s, chars), chars)

\* s.split(): the maximal runs of non-whitespace characters
RECURSIVE Split(_)
Split(s) ==
    LET t == LStrip(s, Whitespace)
        ends == {i \in 1..Len(t) : t[i] \in Whitespace}
        e == IF ends = {} THEN Len(t) + 1 ELSE CHOOSE i \in ends : \A j \in ends : i <= j
    IN  IF t = <<>> THEN <<>>
        ELSE <<SubSeq(t, 1, e - 1)>> \o Split(Drop(t, e - 1))

\* s.splitlines()
RECURSIVE SplitLines(_)
SplitLines(s) ==
    LET i == Find(s, <<"\n">>, 1)
    IN  IF s = <<>> THEN <<>>
        ELSE IF i = 0 THEN <<s>>
        ELSE <<SubSeq(s, 1, i - 1)>> \o SplitLines(Drop(s, i))

\* sep.join(parts)
RECURSIVE Join(_, _)
Join(parts, sep) ==
    IF parts = <<>> THEN <<>>
    ELSE IF Len(parts) = 1 THEN parts[1]
    ELSE parts[1] \o sep \o Join(Tail(parts), sep)

\* str(n) of an int
RECURSIVE StrNat(_)
StrNat(n) == IF n < 10 THEN <<Digits[n + 1]>> ELSE StrNat(n \div 10) \o <<Digits[(n % 10) + 1]>>
Str(n) == IF n < 0 THEN <<"-">> \o StrNat(-n) ELSE StrNat(n)

\* int(s): [ok |-> FALSE] stands for ValueError.  Surrounding whitespace and
\* one sign are accepted, then decimal digits only.
RECURSIVE DigitsVal(_)
DigitsVal(s) == IF s = <<>> THEN 0 ELSE 10 * DigitsVal(SubSeq(s, 1, Len(s) - 1)) + DigitVal(s[Len(s)])
Int_(s) ==
    LET t == Strip(s, Whitespace)
        signed == t # <<>> /\ t[1] \in {"+", "-"}
        body == IF signed THEN Tail(t) ELSE t
    IN  IF body = <<>> \/ \E i \in 1..Len(body) : ~IsDigit(body[i])
        THEN [ok |-> FALSE, val |-> 0]
        ELSE [ok |-> TRUE, val |-> IF signed /\ t[1] = "-" THEN -DigitsVal(body) ELSE DigitsVal(body)]

\* a < b for str
RECURSIVE StrLess(_, _)
StrLess(a, b) ==
    IF b = <<>> THEN FALSE
    ELSE IF a = <<>> THEN TRUE
    ELSE IF a[1] = b[1] THEN StrLess(Tail(a), Tail(b))
    ELSE Ord(a[1]) < Ord(b[1])

\* list.sort() of a list of str / of int: stable insertion into an ascending list
SortStr(l) ==
    LET ins[n \in 0..Len(l)] ==
            IF n = 0 THEN <<>>
            ELSE LET rest == ins[n - 1]
                     k == Cardinality({i \in 1..Len(rest) : ~StrLess(l[n], rest[i])})
                 IN  SubSeq(rest, 1, k) \o <<l[n]>> \o SubSeq(rest, k + 1, Len(rest))
    IN  ins[Len(l)]
SortInt(l) ==
    LET ins[n \in 0..Len(l)] ==
            IF n = 0 THEN <<>>
            ELSE LET rest == ins[n - 1]
                     k == Cardinality({i \in 1..Len(rest) : rest[i] <= l[n]})
                 IN  SubSeq(rest, 1, k) \o <<l[n]>> \o SubSeq(rest, k + 1, Len(rest))
    IN  ins[Len(l)]

\* all sequences over S of length at most n
SeqUpTo(S, n) == UNION {[1..k -> S] : k \in 0..n}

---------------------------------------------------------------------------
(* hw_detect.py: the data model                                            *)

\* HardwareInfo(mode, wan_interface, lan_ports, switch)
HardwareInfo(mode, wan_interface, lan_ports, switch) ==
    [mode |-> mode, wan_interface |-> wan_interface, lan_ports |-> lan_ports,
     switch |-> switch]

\* SwitchInfo(name, cpu_port, cpu_interface, lan_ports, wan_port)
SwitchInfo(name, cpu_port, cpu_interface, lan_ports, wan_port) ==
    [name |-> name, cpu_port |-> cpu_port, cpu_interface |-> cpu_interface,
     lan_ports |-> lan_ports, wan_port |-> wan_port]

Eth0 == <<"e", "t", "h", "0">>
Switch0 == <<"s", "w", "i", "t", "c", "h", "0">>

\* DSA_DEFAULTS
DSA_DEFAULTS ==
    HardwareInfo("dsa", Eth0, <<<<"e", "t", "h", "1">>, <<"e", "t", "h", "2">>>>, NoSwitch)

\* the hw value before any detection has run
NoHardware == HardwareInfo("none", <<>>, <<>>, NoSwitch)

---------------------------------------------------------------------------
(* uci.py: the UciExecutor as the detector uses it                         *)

\* the commands the detector passes to query()
Selectors == {"show network | grep '=switch'",
              "show network | grep '=bridge-vlan'",
              "get network.wan.device",
              "get network.wan.ifname",
              "get network.@device[0].ports",
              "get network.lan_dev.ports",
              "get network.@switch[0].name",
              "show network | grep 'switch_vlan.*ports='",
              "get network.@switch_vlan[1].ports",
              "get network.lan.ifname"}

\* a UciExecutor with no answer to any query
IdleUci == [is_export |-> FALSE, answers |-> [k \in Selectors |-> None]]

\* uci.query(command): the text the target answers, None when it fails or
\* when there is no live target (export mode)
query(u, command) == IF u.is_export THEN None ELSE u.answers[command]

\* the trace one uci.query(command) call leaves: the command and its answer
Queried(u, command) == <<[op |-> "query", key |-> command, value |-> query(u, command)]>>

---------------------------------------------------------------------------
(* hw_detect.py: detection                                                 *)

\* _detect_is_swconfig(uci)
_detect_is_swconfig(u) == Truthy(query(u, "show network | grep '=switch'"))

\* _detect_is_dsa_config(uci)
_detect_is_dsa_config(u) == Truthy(query(u, "show network | grep '=bridge-vlan'"))

\* _detect_dsa_lan_ports(uci)
_detect_dsa_lan_ports(u) ==
    LET raw == query(u, "get network.@device[0].ports")
        raw2 == query(u, "get network.lan_dev.ports")
    IN  IF Truthy(raw) THEN Split(raw)
        ELSE IF Truthy(raw2) THEN Split(raw2)
        ELSE <<<<"e", "t", "h", "1">>, <<"e", "t", "h", "2">>>>

\* lines 102-106, 124-131: the queries _detect_dsa issues, in order; an "or"
\* and an early return stop at the first answer that is truthy
DsaQueries(u) ==
    Queried(u, "get network.wan.device")
    \o (IF Truthy(query(u, "get network.wan.device")) THEN <<>>
        ELSE Queried(u, "get network.wan.ifname"))
    \o Queried(u, "get network.@device[0].ports")
    \o (IF Truthy(query(u, "get network.@device[0].ports")) THEN <<>>
        ELSE Queried(u, "get network.lan_dev.ports"))

\* line 111: lan_ports.sort()
SortDsaPorts(lan_ports) == SortStr(lan_ports)

\* _detect_dsa(uci)
_detect_dsa(u) ==
    LET wan == Or(query(u, "get network.wan.device"),
                  Or(query(u, "get network.wan.ifname"), Eth0))
        lan_ports == SortDsaPorts(_detect_dsa_lan_ports(u))
    IN  HardwareInfo("dsa", wan, lan_ports, NoSwitch)

\* lines 156-164: the values of the ports= lines of the switch_vlan dump
AllVlanPorts(vlan_configs) ==
    IF ~Truthy(vlan_configs) THEN <<>>
    ELSE LET lines == SplitLines(vlan_configs)
             keep[n \in 0..Len(lines)] ==
                 IF n = 0 THEN <<>>
                 ELSE IF Contains(lines[n], <<"=">>)
                      THEN Append(keep[n - 1], Strip(SplitOnceRest(lines[n], <<"=">>), {"'"}))
                      ELSE keep[n - 1]
         IN  keep[Len(lines)]

\* lines 169-170: a token ending in "t" names the CPU port; int() of a
\* non-numeric prefix raises ValueError, which nothing catches
ScanTaggedToken(st, token) ==
    LET n == Int_(SubSeq(token, 1, Len(token) - 1))
    IN  IF n.ok THEN [st EXCEPT !.cpu_port = n.val]
        ELSE [st EXCEPT !.exc = "ValueError"]

\* lines 172-178: any other token is a LAN candidate if it is a number
ScanPlainToken(st, token) ==
    LET n == Int_(token)
    IN  IF n.ok /\ ~\E i \in 1..Len(st.lan_ports) : st.lan_ports[i] = n.val
        THEN [st EXCEPT !.lan_ports = Append(@, n.val)]
        ELSE st

\* lines 167-178: the scan of all VLAN port strings, token by token
ScanVlanPorts(all_vlan_ports) ==
    LET tokens == Split(Join(all_vlan_ports, <<" ">>))
        scan[n \in 0..Len(tokens)] ==
            IF n = 0 THEN [exc |-> "none", cpu_port |-> 0, lan_ports |-> <<>>]
            ELSE LET st == scan[n - 1]
                 IN  IF st.exc # "none" THEN st
                     ELSE IF EndsWith(tokens[n], <<"t">>) THEN ScanTaggedToken(st, tokens[n])
                     ELSE ScanPlainToken(st, tokens[n])
    IN  scan[Len(tokens)]

\* list.remove(x): without the first occurrence of x
ListRemove(l, x) ==
    LET hits == {i \in 1..Len(l) : l[i] = x}
        i == CHOOSE k \in hits : \A j \in hits : k <= j
    IN  IF hits = {} THEN l ELSE SubSeq(l, 1, i - 1) \o SubSeq(l, i + 1, Len(l))

\* lines 182-192: the untagged tokens of switch_vlan[1] name the WAN port,
\* which is taken out of the LAN candidates
FindWanPort(vlan2_ports, lan_ports) ==
    LET tokens == IF Truthy(vlan2_ports) THEN Split(vlan2_ports) ELSE <<>>
        scan[n \in 0..Len(tokens)] ==
            IF n = 0 THEN [wan_port |-> 5, lan_ports |-> lan_ports]
            ELSE LET st == scan[n - 1]
                     v == Int_(tokens[n])
                 IN  IF EndsWith(tokens[n], <<"t">>) \/ ~v.ok THEN st
                     ELSE [wan_port |-> v.val, lan_ports |-> ListRemove(st.lan_ports, v.val)]
    IN  scan[Len(tokens)]

\* sorted(list(set(ports)))
SortedSet(ports) ==
    LET S == {ports[i] : i \in 1..Len(ports)}
        f[n \in 0..Cardinality(S)] ==
            IF n = 0 THEN <<>>
            ELSE Append(f[n - 1],
                        CHOOSE x \in S : Cardinality({y \in S : y < x}) = n - 1)
    IN  f[Cardinality(S)]

\* lines 264-273: the port numbers of the "Port N:" lines of the output
ParseCliPorts(output) ==
    LET lines == SplitLines(output)
        scan[n \in 0..Len(lines)] ==
            IF n = 0 THEN <<>>
            ELSE LET line == Strip(lines[n], Whitespace)
                     words == Split(line)
                     part == IF Len(words) >= 2 THEN Int_(RStrip(words[2], {":"}))
                             ELSE [ok |-> FALSE, val |-> 0]
                 IN  IF StartsWith(line, <<"P", "o", "r", "t", " ">>) /\ part.ok
                     THEN Append(scan[n - 1], part.val)
                     ELSE scan[n - 1]
    IN  SortedSet(scan[Len(lines)])

\* line 261: except (FileNotFoundError, subprocess.CalledProcessError)
CaughtByProbe == {"FileNotFoundError", "CalledProcessError"}

\* _detect_swconfig_ports_from_cli(uci, switch_name), sh what subprocess.run
\* does: raise, never return (it is called without a timeout, "hangs"), or
\* exit with a return code and an output.  exc is the exception that leaves
\* the call ("hangs": nothing leaves it), "none" when it returns ports.
_detect_swconfig_ports_from_cli(u, sh) ==
    IF u.is_export THEN [exc |-> "none", ports |-> <<>>]
    ELSE IF sh.raises \in CaughtByProbe THEN [exc |-> "none", ports |-> <<>>]
    ELSE IF sh.raises # "none" THEN [exc |-> sh.raises, ports |-> <<>>]
    ELSE IF sh.returncode # 0 THEN [exc |-> "none", ports |-> <<>>]
    ELSE [exc |-> "none", ports |-> ParseCliPorts(sh.stdout)]

\* the guard with its condition lost: the probe runs whatever was declared
ProbeNeeded_Always(lan_ports) == TRUE

\* line 197: the secondary probe runs only for at most one LAN candidate
ProbeNeeded(lan_ports) == Len(lan_ports) <= 1

\* lines 199-208: the probed ports that are neither the CPU nor the WAN port
\* replace the candidates, unless there is none
PotentialLan(hw_ports, lan_ports, cpu_port, wan_port) ==
    LET potential_lan == SelectSeq(hw_ports, LAMBDA p : p # cpu_port /\ p # wan_port)
    IN  IF potential_lan # <<>> THEN potential_lan ELSE lan_ports

\* lines 197-210: lan_ports after the ghost-port guard, the number of probe
\* invocations, and the exception the probe let through
GhostPortGuard(u, sh, lan_ports, cpu_port, wan_port) ==
    IF ProbeNeeded(lan_ports)
    THEN [exc |-> _detect_swconfig_ports_from_cli(u, sh).exc,
          calls |-> IF u.is_export THEN 0 ELSE 1,
          lan_ports |-> PotentialLan(_detect_swconfig_ports_from_cli(u, sh).ports,
                                     lan_ports, cpu_port, wan_port)]
    ELSE [exc |-> "none", calls |-> 0, lan_ports |-> lan_ports]

\* lines 213-215: the default LAN ports
DefaultLanPorts(lan_ports) == IF lan_ports = <<>> THEN <<1, 2, 3, 4>> ELSE lan_ports

\* the list left in the order it was collected
SortSwitchPorts_Unsorted(lan_ports) == lan_ports

\* line 223: lan_ports.sort()
SortSwitchPorts(lan_ports) == SortInt(lan_ports)

\* _detect_swconfig(uci): exc is the exception that left the call ("none":
\* it returned hw), calls the number of secondary probes it made, queries
\* the uci queries it issued (lines 143, 146, 158, 182, 218)
_detect_swconfig(u, sh) ==
    LET first == Queried(u, "get network.@switch[0].name")
                 \o Queried(u, "get network.wan.ifname")
                 \o Queried(u, "show network | grep 'switch_vlan.*ports='")
        second == Queried(u, "get network.@switch_vlan[1].ports")
        third == Queried(u, "get network.lan.ifname")
        switch_name == Or(query(u, "get network.@switch[0].name"), Switch0)
        wan == Or(query(u, "get network.wan.ifname"), Eth0)
        scanned == ScanVlanPorts(AllVlanPorts(query(u, "show network | grep 'switch_vlan.*ports='")))
        cpu_port == scanned.cpu_port
        found == FindWanPort(query(u, "get network.@switch_vlan[1].ports"), scanned.lan_ports)
        wan_port == found.wan_port
        guarded == GhostPortGuard(u, sh, found.lan_ports, cpu_port, wan_port)
        lan_ports == SortSwitchPorts(DefaultLanPorts(guarded.lan_ports))
        cpu_interface == SplitFirst(Or(query(u, "get network.lan.ifname"), wan), <<".">>)
    IN  IF scanned.exc # "none"
        THEN [exc |-> scanned.exc, calls |-> 0, queries |-> first, hw |-> NoHardware]
        ELSE IF guarded.exc # "none"
        THEN [exc |-> guarded.exc, calls |-> guarded.calls, queries |-> first \o second,
              hw |-> NoHardware]
        ELSE [exc |-> "none", calls |-> guarded.calls, queries |-> first \o second \o third,
              hw |-> HardwareInfo("swconfig", wan, <<>>,
                         SwitchInfo(switch_name, cpu_port, cpu_interface, lan_ports, wan_port))]

\* a result with the queries made before the call put in front
After(queries, r) == [r EXCEPT !.queries = queries \o @]

\* the result of a call of _detect_dsa, which raises nothing and probes nothing
DsaResult(u) == [exc |-> "none", calls |-> 0, queries |-> DsaQueries(u), hw |-> _detect_dsa(u)]

\* detection without the export tier: a sink in export mode is probed like a
\* live target
detect_hardware_NoExportTier(u, sh) ==
    IF _detect_is_swconfig(u)
    THEN After(Queried(u, "show network | grep '=switch'"), _detect_swconfig(u, sh))
    ELSE After(Queried(u, "show network | grep '=switch'")
               \o Queried(u, "show network | grep '=bridge-vlan'"), DsaResult(u))

\* detection with the two marker checks exchanged: a bridge-vlan section
\* decides before a switch section does
detect_hardware_BridgeFirst(u, sh) ==
    IF u.is_export THEN [exc |-> "none", calls |-> 0, queries |-> <<>>, hw |-> DSA_DEFAULTS]
    ELSE IF _detect_is_dsa_config(u)
    THEN After(Queried(u, "show network | grep '=bridge-vlan'"), DsaResult(u))
    ELSE IF _detect_is_swconfig(u)
    THEN After(Queried(u, "show network | grep '=bridge-vlan'")
               \o Queried(u, "show network | grep '=switch'"), _detect_swconfig(u, sh))
    ELSE After(Queried(u, "show network | grep '=bridge-vlan'")
               \o Queried(u, "show network | grep '=switch'"), DsaResult(u))

\* detect_hardware(uci)
detect_hardware(u, sh) ==
    IF u.is_export THEN [exc |-> "none", calls |-> 0, queries |-> <<>>, hw |-> DSA_DEFAULTS]
    ELSE IF _detect_is_swconfig(u)
    THEN After(Queried(u, "show network | grep '=switch'"), _detect_swconfig(u, sh))
    ELSE IF _detect_is_dsa_config(u)
    THEN After(Queried(u, "show network | grep '=switch'")
               \o Queried(u, "show network | grep '=bridge-vlan'"), DsaResult(u))
    ELSE After(Queried(u, "show network | grep '=switch'")
               \o Queried(u, "show network | grep '=bridge-vlan'"), DsaResult(u))

---------------------------------------------------------------------------
(* bridge_modes.py: _resolve_ports                                         *)

Lan == <<"l", "a", "n">>

\* ResolveIndex with the index taken 0-based from the token (the "- 1" lost)
ResolveIndex_ZeroBased(base, is_tagged, available_ports) ==
    LET n == Int_(Remove(base, Lan))
        idx == n.val
        max_idx == Len(available_ports)
    IN  IF ~n.ok THEN [exc |-> "ValueError", pairs |-> <<>>]
        ELSE IF 0 <= idx /\ idx < max_idx
             THEN [exc |-> "none", pairs |-> <<<<available_ports[idx + 1], is_tagged>>>>]
             ELSE [exc |-> "none", pairs |-> <<>>]

\* lines 226-230: the body of the try block for one token whose base starts
\* with "lan"; exc = "ValueError" when int() raises
ResolveIndex(base, is_tagged, available_ports) ==
    LET n == Int_(Remove(base, Lan))
        idx == n.val - 1
        max_idx == Len(available_ports)
    IN  IF ~n.ok THEN [exc |-> "ValueError", pairs |-> <<>>]
        ELSE IF 0 <= idx /\ idx < max_idx
             THEN [exc |-> "none", pairs |-> <<<<available_ports[idx + 1], is_tagged>>>>]
             ELSE [exc |-> "none", pairs |-> <<>>]

\* the try block without its except clause: the ValueError leaves the call
ExceptValueError_Uncaught(r) == r

\* lines 231-232: except ValueError: print a warning, go on with the next token
ExceptValueError(r) ==
    IF r.exc = "ValueError" THEN [exc |-> "none", pairs |-> <<>>] ELSE r

\* lines 218-234: one iteration of the loop over user_ports
ResolveToken(p, available_ports) ==
    LET clean_p == StrLower(p)
        is_tagged == Contains(clean_p, <<":", "t">>)
        base == SplitFirst(clean_p, <<":">>)
    IN  IF StartsWith(base, Lan)
        THEN ExceptValueError(ResolveIndex(base, is_tagged, available_ports))
        ELSE [exc |-> "none", pairs |-> <<>>]

\* the resolver keeping only the first of equal pairs
_resolve_ports_Dedup(ports, available_ports) ==
    LET run[n \in 0..Len(ports)] ==
            IF n = 0 THEN <<>>
            ELSE run[n - 1] \o
                 SelectSeq(ExceptValueError(ResolveToken(ports[n], available_ports)).pairs,
                           LAMBDA pr : \A j \in 1..Len(run[n - 1]) : run[n - 1][j] # pr)
    IN  [exc |-> "none", value |-> run[Len(ports)]]

\* _resolve_ports(user_ports, available_ports): value is the returned list,
\* exc the exception that ended the loop early ("none": returned normally)
_resolve_ports(ports, available_ports) ==
    LET run[n \in 0..Len(ports)] ==
            IF n = 0 THEN [exc |-> "none", value |-> <<>>]
            ELSE LET before == run[n - 1]
                     r == ResolveToken(ports[n], available_ports)
                 IN  IF before.exc # "none" THEN before
                     ELSE [exc |-> r.exc, value |-> before.value \o r.pairs]
    IN  run[Len(ports)]

\* the list the strategies resolve against: DsaBridgeMode passes hw.lan_ports
\* (line 85), SwconfigBridgeMode its switch's lan_ports (line 164)
AvailablePorts(h) ==
    IF h.mode = "swconfig" /\ h.switch # NoSwitch THEN h.switch.lan_ports ELSE h.lan_ports

---------------------------------------------------------------------------
(* bridge_modes.py: SwconfigBridgeMode.configure_vlan                      *)

\* the CPU port written without its tag
CpuPortStr_Untagged(sw) == Str(sw.cpu_port)

\* line 159: cpu_port_str = f"{sw.cpu_port}t"
CpuPortStr(sw) == Str(sw.cpu_port) \o <<"t">>

\* line 168: val = f"{port}t" if tagged else str(port)
PortVal(assignment) ==
    IF assignment[2] THEN Str(assignment[1]) \o <<"t">> ELSE Str(assignment[1])

\* lines 163-172: the entry names ports
UserPortsStr(assignments, sw) ==
    Join([i \in 1..Len(assignments) |-> PortVal(assignments[i])], <<" ">>)
        \o <<" ">> \o CpuPortStr(sw)

\* lines 176-179: VLAN 1 without ports takes every LAN port untagged
DefaultLanStr(sw) ==
    Join([i \in 1..Len(sw.lan_ports) |-> Str(sw.lan_ports[i])], <<" ">>)
        \o <<" ">> \o CpuPortStr(sw)

\* lines 184-188: the four uci calls, as (operation, key, value)
SwitchVlanCommands(sw, vid, ports_str) ==
    <<[op |-> "add", key |-> "network", value |-> <<"s", "w", "i", "t", "c", "h", "_", "v", "l", "a", "n">>],
      [op |-> "set", key |-> "network.@switch_vlan[-1].device", value |-> sw.name],
      [op |-> "set", key |-> "network.@switch_vlan[-1].vlan", value |-> Str(vid)],
      [op |-> "set", key |-> "network.@switch_vlan[-1].ports", value |-> ports_str]>>

\* SwconfigBridgeMode.configure_vlan(uci, net, hw): exc is the exception that
\* left the call, cmds the uci calls it made
configure_vlan(sw, net) ==
    IF net.ports # <<>>
    THEN IF _resolve_ports(net.ports, sw.lan_ports).exc # "none"
         THEN [exc |-> _resolve_ports(net.ports, sw.lan_ports).exc, cmds |-> <<>>]
         ELSE [exc |-> "none",
               cmds |-> SwitchVlanCommands(sw, net.vlan_id,
                            UserPortsStr(_resolve_ports(net.ports, sw.lan_ports).value, sw))]
    ELSE IF net.vlan_id = 1
    THEN [exc |-> "none", cmds |-> SwitchVlanCommands(sw, net.vlan_id, DefaultLanStr(sw))]
    ELSE [exc |-> "none", cmds |-> SwitchVlanCommands(sw, net.vlan_id, CpuPortStr(sw))]

---------------------------------------------------------------------------
(* models.py: NetworkConfig; orchestrator.py: _auto_allocate_ports         *)

\* NetworkConfig(name, vlan_id, role, ..., ports).  ports is a list object:
\* ports_id tells which one, named after the network whose entry created it;
\* networks with the same ports_id hold the same list
NetworkConfig(name, vlan_id, role, ports) ==
    [name |-> name, vlan_id |-> vlan_id, role |-> role, ports |-> ports, ports_id |-> name]

\* models.py line 104: ports = entry.get("ports", []) keeps the list object
\* of the loaded YAML, and an anchored list and its aliases are one object.
\* The plans that differ from nets only in that some networks with equal
\* port lists hold the same list; a[i] is the first network holding the list
\* of network i
SharedLists(nets) ==
    {[i \in 1..Len(nets) |-> [nets[i] EXCEPT !.ports_id = nets[a[i]].name]] :
        a \in {a \in [1..Len(nets) -> 1..Len(nets)] :
                  \A i \in 1..Len(nets) :
                      a[i] <= i /\ a[a[i]] = a[i] /\ nets[a[i]].ports = nets[i].ports}}

\* lines 165 and 174: net.ports.append / extend change the list object, so
\* every network holding the list of network t sees the new tokens
ExtendPorts(nets, t, tokens) ==
    [n \in 1..Len(nets) |->
        IF nets[n].ports_id = nets[t].ports_id
        THEN [nets[n] EXCEPT !.ports = @ \o tokens]
        ELSE nets[n]]

\* line 164: port_name = f"lan{idx}"
port_name(idx) == Lan \o Str(idx)

\* line 154: targets = [net for net in networks if not net.ports], as the
\* ascending list of their positions in networks
Targets(nets) ==
    LET pick[n \in 0..Len(nets)] ==
            IF n = 0 THEN <<>>
            ELSE IF nets[n].ports = <<>> THEN Append(pick[n - 1], n) ELSE pick[n - 1]
    IN  pick[Len(nets)]

\* lines 157-166: the loop over targets; each pops the first free index and
\* appends "lan<idx>" to its ports, or is skipped once the pool is empty
AllocateTargets(nets, available_indices) ==
    LET targets == Targets(nets)
        step[n \in 0..Len(targets)] ==
            IF n = 0 THEN [nets |-> nets, pool |-> available_indices]
            ELSE LET before == step[n - 1]
                     t == targets[n]
                 IN  IF before.pool = <<>> THEN before
                     ELSE [nets |-> ExtendPorts(before.nets, t, <<port_name(Head(before.pool))>>),
                           pool |-> Tail(before.pool)]
    IN  step[Len(targets)]

\* line 170: next((n for n in networks if n.vlan_id == 1), None), as a
\* position in networks, 0 for None
Vlan1Net(nets) ==
    LET hits == {i \in 1..Len(nets) : nets[i].vlan_id = 1}
    IN  IF hits = {} THEN 0 ELSE CHOOSE i \in hits : \A j \in hits : i <= j

\* lines 169-177: what is left in the pool goes to the VLAN 1 network
AssignLeftovers(nets, available_indices) ==
    LET v == Vlan1Net(nets)
        extras == [i \in 1..Len(available_indices) |-> port_name(available_indices[i])]
    IN  IF available_indices # <<>> /\ v # 0
        THEN ExtendPorts(nets, v, extras)
        ELSE nets

\* line 143: total_ports = len(hw.lan_ports)
TotalPorts(h) == Len(h.lan_ports)

\* _auto_allocate_ports(networks, hw): the networks after the call
_auto_allocate_ports(nets, h) ==
    LET total_ports == TotalPorts(h)
        served == AllocateTargets(nets, [i \in 1..total_ports |-> i])
    IN  IF total_ports = 0 THEN nets
        ELSE AssignLeftovers(served.nets, served.pool)

---------------------------------------------------------------------------
(* Inputs                                                                  *)

EthName(i) == <<"e", "t", "h">> \o Str(i)
LanName(i) == Lan \o Str(i)

\* DSA profiles of at most n ports: interface names eth1..ethN, or DSA ports
\* named lan2..lan<N+1>
DsaProfiles(n) ==
    {HardwareInfo("dsa", Eth0, [i \in 1..k |-> EthName(i)], NoSwitch) : k \in 0..n}
    \cup {HardwareInfo("dsa", Eth0, [i \in 1..k |-> LanName(i + 1)], NoSwitch) : k \in 1..n}

\* switch-chip profiles of at most n LAN ports: WAN 0, LAN 1..N, CPU N+2
\* (N = 3: the chip of the tests, CPU 5), or CPU 0, WAN 1, LAN 2..N+1
SwconfigProfiles(n) ==
    {HardwareInfo("swconfig", Eth0, <<>>,
                  SwitchInfo(Switch0, k + 2, Eth0, [i \in 1..k |-> i], 0)) : k \in 0..n}
    \cup {HardwareInfo("swconfig", Eth0, <<>>,
                       SwitchInfo(Switch0, 0, Eth0, [i \in 1..k |-> i + 1], 1)) : k \in 1..n}

\* user port tokens: <prefix><number><suffix>
TokenPrefixes == {Lan, <<"L", "a", "n">>, <<"e", "t", "h">>, <<>>}
TokenNumbers == {Str(k) : k \in -1..(MaxPorts + 1)} \cup {<<>>, <<"x">>}
TokenSuffixes == {<<>>, <<":", "t">>, <<":", "t", "x">>}
Tokens == {p \o n \o x : p \in TokenPrefixes, n \in TokenNumbers, x \in TokenSuffixes}

\* plans: at most MaxNets networks net1, net2, ... each with a VLAN id and
\* either no ports or ports pinned by the user
Proxy == <<"p", "r", "o", "x", "y">>
NetName(i) == <<"n", "e", "t">> \o Str(i)
VlanIds == {1, 2, 3}
PinnedPorts == {<<>>, <<LanName(1)>>, <<LanName(2) \o <<":", "t">>>>}
Plans ==
    UNION {SharedLists(nets) :
           nets \in UNION {{[i \in 1..n |-> NetworkConfig(NetName(i), v[i], Proxy, p[i])] :
                              v \in [1..n -> VlanIds], p \in [1..n -> PinnedPorts]} :
                           n \in 0..MaxNets}}

\* answers to the DSA queries: the switch marker query fails or finds nothing
\* (empty text); a bridge port list is absent, empty, blanks only (a text
\* that is truthy and whose split() gives no name), or up to MaxDsaNames names
\* separated by blanks, in any order
DsaNames == {EthName(1), EthName(2), EthName(10), LanName(1)}
DsaPortTexts == {None, <<>>, <<" ">>} \cup {Join(l, <<" ">>) : l \in SeqUpTo(DsaNames, MaxDsaNames) \ {<<>>}}
BridgeVlanMarker ==
    <<"n", "e", "t", "w", "o", "r", "k", ".", "c", "f", "g", "0", "=", "b", "r", "i", "d",
      "g", "e", "-", "v", "l", "a", "n">>
SwitchMarker ==
    <<"n", "e", "t", "w", "o", "r", "k", ".", "s", "w", "i", "t", "c", "h", "0", "=", "s",
      "w", "i", "t", "c", "h">>

DsaAnswers(switch, marker, device, ifname, ports, lan_dev) ==
    [IdleUci.answers EXCEPT
        !["show network | grep '=switch'"] = switch,
        !["show network | grep '=bridge-vlan'"] = marker,
        !["get network.wan.device"] = device,
        !["get network.wan.ifname"] = ifname,
        !["get network.@device[0].ports"] = ports,
        !["get network.lan_dev.ports"] = lan_dev]

\* the switch_vlan dump: up to MaxVlanSymbols port tokens and section breaks.
\* Tokens are port numbers, tagged port numbers and non-numeric text.
Break == <<"\n">>
VlanSymbols == {<<"0">>, <<"1">>, <<"2">>, <<"5">>, <<"5", "t">>, <<"x", "t">>, <<"x">>, Break}

\* the port strings of the sections: the tokens between the breaks
SectionPorts(symbols) ==
    LET cut[n \in 0..Len(symbols)] ==
            IF n = 0 THEN <<<<>>>>
            ELSE IF symbols[n] = Break THEN Append(cut[n - 1], <<>>)
            ELSE [cut[n - 1] EXCEPT ![Len(cut[n - 1])] = Append(@, symbols[n])]
    IN  [i \in 1..Len(cut[Len(symbols)]) |-> Join(cut[Len(symbols)][i], <<" ">>)]

\* "network.@switch_vlan[i].ports='<ports>'", one line per section
VlanDump(sections) ==
    Join([i \in 1..Len(sections) |->
            <<"n", "e", "t", "w", "o", "r", "k", ".", "@", "s", "w", "i", "t", "c", "h", "_",
              "v", "l", "a", "n", "[">> \o Str(i - 1) \o <<"]", ".", "p", "o", "r", "t", "s", "=", "'">>
            \o sections[i] \o <<"'">>],
         <<"\n">>)

\* answers to the three name queries of switch-chip detection, and to the
\* bridge-vlan marker query (a target may hold both kinds of section)
NameAnswers ==
    {<<None, None, None, None>>,
     <<Switch0, <<"e", "t", "h", "0", ".", "2">>, <<"e", "t", "h", "0", ".", "1">>, BridgeVlanMarker>>,
     <<None, <<"e", "t", "h", "0", ".", "2">>, None, None>>,
     <<Switch0, None, <<"e", "t", "h", "1">>, BridgeVlanMarker>>}

\* the answers of a target with a switch section: the dump of the sections
\* (absent when there is no symbol at all); switch_vlan[1].ports is the
\* second section's port string, or absent
SwconfigAnswers(names, symbols, has_wan_vlan) ==
    [IdleUci.answers EXCEPT
        !["show network | grep '=switch'"] = SwitchMarker,
        !["show network | grep '=bridge-vlan'"] = names[4],
        !["get network.@switch[0].name"] = names[1],
        !["get network.wan.ifname"] = names[2],
        !["get network.lan.ifname"] = names[3],
        !["show network | grep 'switch_vlan.*ports='"] =
            IF symbols = <<>> THEN None ELSE VlanDump(SectionPorts(symbols)),
        !["get network.@switch_vlan[1].ports"] =
            IF has_wan_vlan /\ Len(SectionPorts(symbols)) >= 2
            THEN SectionPorts(symbols)[2] ELSE None]

\* what the swconfig probe does: the shell is missing, the process cannot be
\* started, the command never ends, the command fails, or it prints one
\* "Port N:" line per port of the chip
CliOutput(ports) ==
    Join([i \in 1..Len(ports) |-> <<"P", "o", "r", "t", " ">> \o Str(ports[i]) \o <<":">>], <<"\n">>)
ShellOutcomes ==
    {[raises |-> "FileNotFoundError", returncode |-> 0, stdout |-> <<>>],
     [raises |-> "OSError", returncode |-> 0, stdout |-> <<>>],
     [raises |-> "hangs", returncode |-> 0, stdout |-> <<>>],
     [raises |-> "none", returncode |-> 1, stdout |-> <<>>],
     [raises |-> "none", returncode |-> 0,
      stdout |-> <<"P", "o", "r", "t", " ", "x", ":", "\n", " ", "P", "o", "r", "t", " ", "3", ":">>]}
    \cup {[raises |-> "none", returncode |-> 0, stdout |-> CliOutput(ports)] :
             ports \in {<<>>, <<0, 1, 2, 3, 4, 5>>, <<5, 0>>, <<2, 1, 2>>}}

\* values of the variables a specification does not use
IdleShell == [raises |-> "none", returncode |-> 1, stdout |-> <<>>]
IdleResult == [exc |-> "none", value |-> <<>>]

---------------------------------------------------------------------------
(* SpecResolve: one call of _resolve_ports, as a strategy makes it         *)

InitResolve ==
    /\ pc = "start"
    /\ net_index = 0
    /\ calls = <<>>
    /\ proxy_cfg = NoProxy
    /\ wifi_table = <<>>
    /\ (hw \in DsaProfiles(MaxPorts) \/ hw \in SwconfigProfiles(MaxPorts))
    /\ user_ports \in SeqUpTo(Tokens, MaxTokens)
    /\ result = IdleResult
    /\ raised = "none"
    /\ uci = IdleUci
    /\ shell = IdleShell
    /\ cli_calls = 0
    /\ plan = <<>>
    /\ networks = <<>>
    /\ commands = <<>>

Resolve ==
    /\ pc = "start"
    /\ result' = _resolve_ports(user_ports, AvailablePorts(hw))
    /\ raised' = result'.exc
    /\ pc' = "resolved"
    /\ UNCHANGED <<uci, shell, hw, cli_calls, plan, networks, user_ports, commands,
                   net_index, calls,
                   proxy_cfg, wifi_table>>

NextResolve == Resolve

SpecResolve == InitResolve /\ [][NextResolve]_vars

---------------------------------------------------------------------------
(* SpecAlloc: one call of _auto_allocate_ports                             *)

InitAlloc ==
    /\ pc = "start"
    /\ net_index = 0
    /\ calls = <<>>
    /\ proxy_cfg = NoProxy
    /\ wifi_table = <<>>
    /\ (hw \in DsaProfiles(MaxAllocPorts) \/ hw \in SwconfigProfiles(MaxAllocPorts))
    /\ plan \in Plans
    /\ networks = plan
    /\ user_ports = <<>>
    /\ result = IdleResult
    /\ raised = "none"
    /\ uci = IdleUci
    /\ shell = IdleShell
    /\ cli_calls = 0
    /\ commands = <<>>

Allocate ==
    /\ pc = "start"
    /\ networks' = _auto_allocate_ports(networks, hw)
    /\ pc' = "allocated"
    /\ UNCHANGED <<uci, shell, hw, cli_calls, raised, plan, user_ports, result, commands,
                   net_index, calls,
                   proxy_cfg, wifi_table>>

NextAlloc == Allocate

SpecAlloc == InitAlloc /\ [][NextAlloc]_vars

---------------------------------------------------------------------------
(* SpecDetect: one call of detect_hardware                                 *)

InitDetect ==
    /\ pc = "start"
    /\ net_index = 0
    /\ calls = <<>>
    /\ proxy_cfg = NoProxy
    /\ wifi_table = <<>>
    /\ \/ /\ uci = [is_export |-> TRUE, answers |-> IdleUci.answers]
          /\ shell \in ShellOutcomes
       \/ /\ \E switch \in {None, <<>>}, marker \in {None, BridgeVlanMarker}, device \in {None, <<"w", "a", "n">>},
                ifname \in {None, <<"e", "t", "h", "0", ".", "2">>}, ports \in DsaPortTexts,
                lan_dev \in {None, <<" ">>, <<"e", "t", "h", "2", " ", "e", "t", "h", "1">>} :
                uci = [is_export |-> FALSE,
                       answers |-> DsaAnswers(switch, marker, device, ifname, ports, lan_dev)]
          /\ shell = IdleShell
       \/ /\ \E names \in NameAnswers, symbols \in SeqUpTo(VlanSymbols, MaxVlanSymbols),
                has_wan_vlan \in BOOLEAN :
                uci = [is_export |-> FALSE,
                       answers |-> SwconfigAnswers(names, symbols, has_wan_vlan)]
          /\ shell \in ShellOutcomes
    /\ hw = NoHardware
    /\ cli_calls = 0
    /\ raised = "none"
    /\ plan = <<>>
    /\ networks = <<>>
    /\ user_ports = <<>>
    /\ result = IdleResult
    /\ commands = <<>>

Detect ==
    /\ pc = "start"
    /\ \E r \in {detect_hardware(uci, shell)} :
           /\ hw' = r.hw
           /\ raised' = IF r.exc = "hangs" THEN "none" ELSE r.exc
           /\ cli_calls' = cli_calls + r.calls
           /\ commands' = commands \o r.queries
           /\ pc' = IF r.exc = "none" THEN "detected"
                    ELSE IF r.exc = "hangs" THEN "blocked" ELSE "failed"
    /\ UNCHANGED <<uci, shell, plan, networks, user_ports, result, net_index, calls,
                   proxy_cfg, wifi_table>>

NextDetect == Detect

SpecDetect == InitDetect /\ [][NextDetect]_vars

---------------------------------------------------------------------------
(* SpecVlan: one call of SwconfigBridgeMode.configure_vlan                 *)

InitVlan ==
    /\ pc = "start"
    /\ net_index = 0
    /\ calls = <<>>
    /\ proxy_cfg = NoProxy
    /\ wifi_table = <<>>
    /\ hw \in SwconfigProfiles(MaxPorts)
    /\ \E vid \in VlanIds, ports \in SeqUpTo(Tokens, MaxTokens) :
           networks = <<NetworkConfig(NetName(1), vid, Proxy, ports)>>
    /\ plan = networks
    /\ commands = <<>>
    /\ user_ports = <<>>
    /\ result = IdleResult
    /\ raised = "none"
    /\ uci = IdleUci
    /\ shell = IdleShell
    /\ cli_calls = 0

ConfigureVlan ==
    /\ pc = "start"
    /\ \E r \in {configure_vlan(hw.switch, networks[1])} :
           /\ commands' = commands \o r.cmds
           /\ raised' = r.exc
           /\ pc' = IF r.exc = "none" THEN "configured" ELSE "failed"
    /\ UNCHANGED <<uci, shell, hw, cli_calls, plan, networks, user_ports, result,
                   net_index, calls,
                   proxy_cfg, wifi_table>>

NextVlan == ConfigureVlan

SpecVlan == InitVlan /\ [][NextVlan]_vars

---------------------------------------------------------------------------
(* roles.py: RoleRegistry                                                  *)

Clean == <<"c", "l", "e", "a", "n">>
Isolate == <<"i", "s", "o", "l", "a", "t", "e">>

\* create_default_registry(): the names registered, in registration order
create_default_registry == <<Proxy, Clean, Isolate>>

\* a registry that hands out a role for whatever name it is asked
get_Lenient(registry, name) == [exc |-> "none", value |-> <<name>>]

\* RoleRegistry.get(name): the role registered under name; for a name that is
\* not registered a ValueError whose message holds the name and the sorted
\* registered names joined by ", " (value: the two texts put in the message)
get(registry, name) ==
    IF \A i \in 1..Len(registry) : registry[i] # name
    THEN [exc |-> "ValueError",
          value |-> <<name, Join(SortStr(registry), <<",", " ">>)>>]
    ELSE [exc |-> "none", value |-> <<name>>]

---------------------------------------------------------------------------
(* bridge_modes.py: the strategies as NetworkOrchestrator.run calls them   *)

\* create_bridge_mode(hw): the mode_name of the strategy created
create_bridge_mode(h) ==
    IF h.mode = "swconfig" /\ h.switch # NoSwitch THEN "Swconfig" ELSE "DSA"

\* uci.set(key, value), uci.add_list(key, value), uci.add(config, type), and
\* uci.set on a key formatted with a section name: f"network.{name}..."
Set(key, value) == [op |-> "set", key |-> key, value |-> value]
AddList(key, value) == [op |-> "add_list", key |-> key, value |-> value]
Add(config, type) == [op |-> "add", key |-> config, value |-> type]
SetIn(key, section, value) == [op |-> "set", key |-> key, section |-> section, value |-> value]

BrLan == <<"b", "r", "-", "l", "a", "n">>
Bridge == <<"b", "r", "i", "d", "g", "e">>
Static == <<"s", "t", "a", "t", "i", "c">>
Interface == <<"i", "n", "t", "e", "r", "f", "a", "c", "e">>

\* DsaBridgeMode.configure_base(uci, hw)
Dsa_configure_base(h) ==
    <<Set("network.lan_dev", <<"d", "e", "v", "i", "c", "e">>),
      Set("network.lan_dev.name", BrLan),
      Set("network.lan_dev.type", Bridge)>>
    \o [i \in 1..Len(h.lan_ports) |-> AddList("network.lan_dev.ports", h.lan_ports[i])]
    \o <<Set("network.lan_dev.vlan_filtering", <<"1">>)>>

\* lines 77-79: the bridge-vlan entry of a network
BridgeVlanCommands(vid) ==
    <<Add("network", <<"b", "r", "i", "d", "g", "e", "-", "v", "l", "a", "n">>),
      Set("network.@bridge-vlan[-1].device", BrLan),
      Set("network.@bridge-vlan[-1].vlan", Str(vid))>>

\* every member rendered untagged
DsaPortVal_Untagged(assignment) == assignment[1]

\* line 89: val = f"{port}:t" if tagged else port
DsaPortVal(assignment) ==
    IF assignment[2] THEN assignment[1] \o <<":", "t">> ELSE assignment[1]

\* DsaBridgeMode.configure_vlan(uci, net, hw): the entry is added before the
\* ports are resolved
Dsa_configure_vlan(net, h) ==
    IF net.ports # <<>>
    THEN LET assignments == _resolve_ports(net.ports, h.lan_ports)
         IN  IF assignments.exc # "none"
             THEN [exc |-> assignments.exc, cmds |-> BridgeVlanCommands(net.vlan_id)]
             ELSE [exc |-> "none",
                   cmds |-> BridgeVlanCommands(net.vlan_id)
                            \o [i \in 1..Len(assignments.value) |->
                                   AddList("network.@bridge-vlan[-1].ports",
                                           DsaPortVal(assignments.value[i]))]]
    ELSE IF net.vlan_id = 1
    THEN [exc |-> "none",
          cmds |-> BridgeVlanCommands(net.vlan_id)
                   \o [i \in 1..Len(h.lan_ports) |->
                          AddList("network.@bridge-vlan[-1].ports", h.lan_ports[i])]]
    ELSE [exc |-> "none", cmds |-> BridgeVlanCommands(net.vlan_id)]

\* DsaBridgeMode.configure_interface(uci, net)
Dsa_configure_interface(net) ==
    <<SetIn("network.{name}", net.name, Interface),
      SetIn("network.{name}.device", net.name, BrLan \o <<".">> \o Str(net.vlan_id)),
      SetIn("network.{name}.proto", net.name, Static),
      SetIn("network.{name}.ipaddr", net.name, net.subnet),
      SetIn("network.{name}.netmask", net.name, net.netmask)>>

\* SwconfigBridgeMode.configure_base(uci, hw).  wan_port is an int in every
\* SwitchInfo, so "sw.wan_port is not None" holds.
configure_base(sw) ==
    <<SetIn("network.{sw.name}", sw.name, <<"s", "w", "i", "t", "c", "h">>),
      SetIn("network.{sw.name}.name", sw.name, sw.name),
      SetIn("network.{sw.name}.reset", sw.name, <<"1">>),
      SetIn("network.{sw.name}.enable_vlan", sw.name, <<"1">>)>>
    \o (IF sw.wan_port # sw.cpu_port
        THEN <<Add("network", <<"s", "w", "i", "t", "c", "h", "_", "v", "l", "a", "n">>),
               Set("network.@switch_vlan[-1].device", sw.name),
               Set("network.@switch_vlan[-1].vlan", <<"2">>),
               Set("network.@switch_vlan[-1].ports",
                   Str(sw.wan_port) \o <<" ">> \o Str(sw.cpu_port) \o <<"t">>)>>
        ELSE <<>>)

\* SwconfigBridgeMode.configure_interface(uci, net)
configure_interface(sw, net) ==
    <<SetIn("network.{name}", net.name, Interface),
      SetIn("network.{name}.type", net.name, Bridge),
      SetIn("network.{name}.ifname", net.name, sw.cpu_interface \o <<".">> \o Str(net.vlan_id)),
      SetIn("network.{name}.proto", net.name, Static),
      SetIn("network.{name}.ipaddr", net.name, net.subnet),
      SetIn("network.{name}.netmask", net.name, net.netmask)>>

---------------------------------------------------------------------------
(* models.py: ProxyConfig, WifiConfig, WifiInfo; roles.py: the role         *)
(* strategies; configurators.py: the DHCP, WiFi and firewall configurators *)

AddListIn(key, section, value) ==
    [op |-> "add_list", key |-> key, section |-> section, value |-> value]

\* ProxyConfig(side_router_ip, proxy_dhcp_mode)
ProxyConfig(side_router_ip, proxy_dhcp_mode) ==
    [side_router_ip |-> side_router_ip, proxy_dhcp_mode |-> proxy_dhcp_mode]
\* WifiConfig(ssid, password)
WifiConfig(ssid, password) == [ssid |-> ssid, password |-> password]
\* WifiInfo(ssid, password, role); NoWifiInfo for a configure() that returns None
WifiInfo(ssid, password, role) == [ssid |-> ssid, password |-> password, role |-> role]
NoWifiInfo == [none |-> TRUE]

\* CleanRole.PUBLIC_DNS, IsolateRole.PUBLIC_DNS
PUBLIC_DNS == <<"2", "2", "3", ".", "5", ".", "5", ".", "5", ",", "1", "1", "4", ".", "1", "1", "4", ".", "1", "1", "4", ".", "1", "1", "4">>

\* ProxyRole.configure_dhcp(uci, net, proxy_cfg)
ProxyRole_configure_dhcp(net, cfg) ==
    IF cfg = NoProxy THEN <<>>
    ELSE IF cfg.proxy_dhcp_mode = <<"m", "a", "i", "n">>
    THEN <<AddListIn("dhcp.{name}.dhcp_option", net.name, <<"3", ",">> \o cfg.side_router_ip),
           AddListIn("dhcp.{name}.dhcp_option", net.name, <<"6", ",">> \o cfg.side_router_ip),
           SetIn("dhcp.{name}.force", net.name, <<"1">>)>>
    ELSE <<SetIn("dhcp.{name}.ignore", net.name, <<"1">>)>>

\* CleanRole.configure_dhcp(uci, net, proxy_cfg)
CleanRole_configure_dhcp(net, cfg) ==
    <<AddListIn("dhcp.{net.name}.dhcp_option", net.name, <<"6", ",">> \o PUBLIC_DNS)>>

\* IsolateRole.configure_dhcp(uci, net, proxy_cfg)
IsolateRole_configure_dhcp(net, cfg) ==
    <<AddListIn("dhcp.{net.name}.dhcp_option", net.name, <<"6", ",">> \o PUBLIC_DNS)>>

\* role.configure_dhcp(uci, net, proxy_cfg) for the role registered under the
\* name role
configure_dhcp(role, net, cfg) ==
    IF role = Proxy THEN ProxyRole_configure_dhcp(net, cfg)
    ELSE IF role = Clean THEN CleanRole_configure_dhcp(net, cfg)
    ELSE IF role = Isolate THEN IsolateRole_configure_dhcp(net, cfg)
    ELSE <<>>

\* role.configure_firewall(uci, zone_name, net): pass, for the three roles
configure_firewall(role, zone_name, net) == <<>>

\* DhcpConfigurator.configure(uci, net, proxy_cfg, role)
DhcpConfigurator_configure(net, cfg, role) ==
    <<SetIn("dhcp.{name}", net.name, <<"d", "h", "c", "p">>),
      SetIn("dhcp.{name}.interface", net.name, net.name),
      SetIn("dhcp.{name}.start", net.name, <<"1", "0", "0">>),
      SetIn("dhcp.{name}.limit", net.name, <<"1", "5", "0">>),
      SetIn("dhcp.{name}.leasetime", net.name, <<"1", "2", "h">>)>>
    \o configure_dhcp(role, net, cfg)

\* WiFiConfigurator.DEFAULT_RADIO
DEFAULT_RADIO == <<"r", "a", "d", "i", "o", "0">>
AutoGenerate == <<"a", "u", "t", "o", "_", "g", "e", "n", "e", "r", "a", "t", "e">>

\* WiFiConfigurator._generate_password(): eight characters drawn by
\* secrets.choice from the letters and digits; the passwords it may return
\* are sampled by these
GeneratedPasswords == {<<"a", "B", "3", "d", "E", "6", "g", "H">>, <<"Z", "z", "9", "Y", "y", "8", "X", "x">>}

\* WiFiConfigurator.configure(uci, net): the uci calls and the WifiInfo
\* returned; generated is what _generate_password returns when it is called
WiFiConfigurator_configure(u, net, generated) ==
    LET probed == ~u.is_export /\ ~u.is_dry_run
        password == IF net.wifi.password = AutoGenerate THEN generated ELSE net.wifi.password
    IN  IF net.wifi = NoWifi THEN [cmds |-> <<>>, info |-> NoWifiInfo]
        ELSE IF probed /\ query(u, "show wireless") = None
        THEN [cmds |-> Queried(u, "show wireless"), info |-> NoWifiInfo]
        ELSE [cmds |-> (IF probed THEN Queried(u, "show wireless") ELSE <<>>)
                       \o <<Add("wireless", <<"w", "i", "f", "i", "-", "i", "f", "a", "c", "e">>),
                            Set("wireless.@wifi-iface[-1].device", DEFAULT_RADIO),
                            Set("wireless.@wifi-iface[-1].mode", <<"a", "p">>),
                            Set("wireless.@wifi-iface[-1].ssid", net.wifi.ssid),
                            Set("wireless.@wifi-iface[-1].encryption", <<"p", "s", "k", "2">>),
                            Set("wireless.@wifi-iface[-1].key", password),
                            Set("wireless.@wifi-iface[-1].network", net.name)>>,
              info |-> WifiInfo(net.wifi.ssid, password, net.role)]

\* FirewallConfigurator.configure(uci, net, role)
FirewallConfigurator_configure(net, role) ==
    <<SetIn("firewall.{zone}", net.name, <<"z", "o", "n", "e">>),
      SetIn("firewall.{zone}.name", net.name, net.name),
      SetIn("firewall.{zone}.network", net.name, net.name),
      SetIn("firewall.{zone}.input", net.name, <<"A", "C", "C", "E", "P", "T">>),
      SetIn("firewall.{zone}.output", net.name, <<"A", "C", "C", "E", "P", "T">>),
      SetIn("firewall.{zone}.forward", net.name, <<"R", "E", "J", "E", "C", "T">>),
      SetIn("firewall.{zone}.masq", net.name, <<"1">>),
      Add("firewall", <<"f", "o", "r", "w", "a", "r", "d", "i", "n", "g">>),
      Set("firewall.@forwarding[-1].src", net.name),
      Set("firewall.@forwarding[-1].dest", <<"w", "a", "n">>)>>
    \o configure_firewall(role, net.name, net)

---------------------------------------------------------------------------
(* orchestrator.py: NetworkOrchestrator.run                                *)

\* one call made by run(): the function and the name of the network it is
\* made for (empty for a call that is not made for a network)
Call(fn, name) == [fn |-> fn, net |-> name]

Subsystems == <<"network", "dhcp", "firewall", "wireless">>
ShowSelector(subsystem) ==
    CASE subsystem = "network" -> "show network"
      [] subsystem = "dhcp" -> "show dhcp"
      [] subsystem = "firewall" -> "show firewall"
      [] subsystem = "wireless" -> "show wireless"

\* lines 112-122: one subsystem of _commit.  In export mode it is committed;
\* on a live target that is not a dry run it is queried and skipped when the
\* query answers None.
CommitSubsystem(u, subsystem) ==
    IF u.is_export THEN <<[op |-> "commit", key |-> subsystem, value |-> <<>>]>>
    ELSE IF u.is_dry_run THEN <<[op |-> "commit", key |-> subsystem, value |-> <<>>]>>
    ELSE IF query(u, ShowSelector(subsystem)) = None
    THEN Queried(u, ShowSelector(subsystem))
    ELSE Queried(u, ShowSelector(subsystem))
         \o <<[op |-> "commit", key |-> subsystem, value |-> <<>>]>>

\* _commit(): the uci calls of the four subsystems, in order
_commit(u) ==
    CommitSubsystem(u, Subsystems[1]) \o CommitSubsystem(u, Subsystems[2])
    \o CommitSubsystem(u, Subsystems[3]) \o CommitSubsystem(u, Subsystems[4])

\* the subnet and netmask of the networks of the plans: 192.168.<vlan>.1/24
Subnet(vid) == <<"1", "9", "2", ".", "1", "6", "8", ".">> \o Str(vid) \o <<".", "1">>
Netmask == <<"2", "5", "5", ".", "2", "5", "5", ".", "2", "5", "5", ".", "0">>

\* a network of a plan of run(): NetworkConfig with its address fields
RunNetwork(i, vid, role, ports) ==
    NetworkConfig(NetName(i), vid, role, ports)
    @@ [subnet |-> Subnet(vid), netmask |-> Netmask, wifi |-> NoWifi]

\* the plans of run(): at most MaxRunNets networks, each with a registered
\* role or the role "guest", which is not registered
Guest == <<"g", "u", "e", "s", "t">>
RunRoles == {Proxy, Isolate, Guest}
RunVlanIds == {1, 2}
RunPorts == {<<>>, <<LanName(1)>>}
\* the wifi block of a network: none, a given password, or "auto_generate"
RunWifis ==
    {NoWifi, WifiConfig(<<"Y", "o", "u", "t", "u", "b", "e">>, <<"1", "2", "3", "4", "5", "6", "7", "8">>),
     WifiConfig(<<"G", "u", "e", "s", "t">>, <<"a", "u", "t", "o", "_", "g", "e", "n", "e", "r", "a", "t", "e">>)}
\* the proxy block of the configuration: none, or a side router with the
\* DHCP mode "main" or "side"
ProxyConfigs ==
    {NoProxy, ProxyConfig(<<"1", "9", "2", ".", "1", "6", "8", ".", "1", ".", "2">>, <<"m", "a", "i", "n">>),
     ProxyConfig(<<"1", "9", "2", ".", "1", "6", "8", ".", "1", ".", "2">>, <<"s", "i", "d", "e">>)}
RunPlans ==
    UNION {SharedLists(nets) :
           nets \in UNION {{[i \in 1..n |-> [RunNetwork(i, v[i], r[i], p[i]) EXCEPT !.wifi = w[i]]] :
                              v \in [1..n -> RunVlanIds], r \in [1..n -> RunRoles],
                              p \in [1..n -> RunPorts], w \in [1..n -> RunWifis]} :
                           n \in 0..MaxRunNets}}

\* the sinks of run(): an exporting sink, a dry run, and live targets whose
\* subsystems all exist or whose wireless subsystem is missing
Present == <<"x">>
CommitAnswers(wireless) ==
    [k \in {"show network", "show dhcp", "show firewall"} |-> Present]
    @@ [k \in {"show wireless"} |-> wireless]
RunSink(is_export, is_dry_run, answers, wireless) ==
    [is_export |-> is_export, is_dry_run |-> is_dry_run,
     answers |-> answers @@ CommitAnswers(wireless)]

\* a live DSA target with three bridge ports and no wireless subsystem; a
\* live switch-chip target (LAN 1 2, CPU 5, WAN 0); a switch-chip target whose
\* dump holds the token "xt"; one with a single declared port whose probe
\* does not end
RunTargets ==
    {[uci |-> RunSink(TRUE, TRUE, IdleUci.answers, None), shell |-> IdleShell],
     [uci |-> RunSink(FALSE, TRUE, IdleUci.answers, None), shell |-> IdleShell],
     [uci |-> RunSink(FALSE, FALSE,
                      DsaAnswers(None, BridgeVlanMarker, None, None,
                                 Join(<<LanName(1), LanName(2), LanName(3)>>, <<" ">>), None),
                      None),
      shell |-> IdleShell],
     [uci |-> RunSink(FALSE, FALSE,
                      SwconfigAnswers(<<Switch0, <<"e", "t", "h", "0", ".", "2">>,
                                        <<"e", "t", "h", "0", ".", "1">>, None>>,
                                      <<<<"1">>, <<"2">>, <<"5", "t">>, Break, <<"0">>, <<"5", "t">>>>,
                                      TRUE),
                      Present),
      shell |-> IdleShell],
     [uci |-> RunSink(FALSE, FALSE,
                      SwconfigAnswers(<<None, None, None, None>>, <<<<"x", "t">>>>, FALSE), Present),
      shell |-> IdleShell],
     [uci |-> RunSink(FALSE, FALSE,
                      SwconfigAnswers(<<None, None, None, None>>, <<<<"1">>>>, FALSE), Present),
      shell |-> [raises |-> "hangs", returncode |-> 0, stdout |-> <<>>]]}

---------------------------------------------------------------------------
(* SpecRun: one call of NetworkOrchestrator.run, call by call              *)

InitRun ==
    /\ pc = "run"
    /\ \E target \in RunTargets : uci = target.uci /\ shell = target.shell
    /\ plan \in RunPlans
    /\ networks = plan
    /\ hw = NoHardware
    /\ cli_calls = 0
    /\ raised = "none"
    /\ user_ports = <<>>
    /\ result = IdleResult
    /\ commands = <<>>
    /\ net_index = 0
    /\ calls = <<>>
    /\ proxy_cfg \in ProxyConfigs
    /\ wifi_table = <<>>

\* line 54: hw = detect_hardware(self._uci); an exception leaves run()
RunDetectHardware ==
    /\ pc = "run"
    /\ \E r \in {detect_hardware(uci, shell)} :
           /\ hw' = r.hw
           /\ raised' = IF r.exc = "hangs" THEN "none" ELSE r.exc
           /\ cli_calls' = cli_calls + r.calls
           /\ commands' = commands \o r.queries
           /\ pc' = IF r.exc = "none" THEN "allocate"
                    ELSE IF r.exc = "hangs" THEN "blocked" ELSE "aborted"
    /\ calls' = Append(calls, Call("detect_hardware", <<>>))
    /\ UNCHANGED <<uci, shell, plan, networks, user_ports, result, net_index,
                   proxy_cfg, wifi_table>>

\* run() without its allocation step
RunAllocatePorts_Skipped ==
    /\ pc = "allocate"
    /\ pc' = "base"
    /\ UNCHANGED <<uci, shell, hw, cli_calls, raised, plan, networks, user_ports, result,
                   commands, net_index, calls,
                   proxy_cfg, wifi_table>>

\* line 64: self._auto_allocate_ports(networks, hw)
RunAllocatePorts ==
    /\ pc = "allocate"
    /\ networks' = _auto_allocate_ports(networks, hw)
    /\ calls' = Append(calls, Call("_auto_allocate_ports", <<>>))
    /\ pc' = "base"
    /\ UNCHANGED <<uci, shell, hw, cli_calls, raised, plan, user_ports, result, commands,
                   net_index,
                   proxy_cfg, wifi_table>>

\* line 70: bridge_mode.configure_base(self._uci, hw); then the loop of line
\* 73 starts at the first network, or is over at once
RunConfigureBase ==
    /\ pc = "base"
    /\ commands' = commands \o (IF create_bridge_mode(hw) = "Swconfig"
                                THEN configure_base(hw.switch)
                                ELSE Dsa_configure_base(hw))
    /\ calls' = Append(calls, Call("configure_base", <<>>))
    /\ net_index' = 1
    /\ pc' = IF networks = <<>> THEN "commit" ELSE "role"
    /\ UNCHANGED <<uci, shell, hw, cli_calls, raised, plan, networks, user_ports, result,
                   proxy_cfg, wifi_table>>

\* line 74: role = self._registry.get(net.role); a ValueError leaves run()
RunGetRole ==
    /\ pc = "role"
    /\ result' = get(create_default_registry, networks[net_index].role)
    /\ raised' = result'.exc
    /\ calls' = Append(calls, Call("get", networks[net_index].name))
    /\ pc' = IF result'.exc = "none" THEN "vlan" ELSE "aborted"
    /\ UNCHANGED <<uci, shell, hw, cli_calls, plan, networks, user_ports, commands, net_index,
                   proxy_cfg, wifi_table>>

\* line 78: bridge_mode.configure_vlan(self._uci, net, hw)
RunConfigureVlan ==
    /\ pc = "vlan"
    /\ \E r \in {IF create_bridge_mode(hw) = "Swconfig"
                 THEN configure_vlan(hw.switch, networks[net_index])
                 ELSE Dsa_configure_vlan(networks[net_index], hw)} :
           /\ commands' = commands \o r.cmds
           /\ raised' = r.exc
           /\ pc' = IF r.exc = "none" THEN "interface" ELSE "aborted"
    /\ calls' = Append(calls, Call("configure_vlan", networks[net_index].name))
    /\ UNCHANGED <<uci, shell, hw, cli_calls, plan, networks, user_ports, result, net_index,
                   proxy_cfg, wifi_table>>

\* the loop body without its configure_interface call
RunConfigureInterface_Skipped ==
    /\ pc = "interface"
    /\ pc' = "services"
    /\ UNCHANGED <<uci, shell, hw, cli_calls, raised, plan, networks, user_ports, result,
                   commands, net_index, calls,
                   proxy_cfg, wifi_table>>

\* line 79: bridge_mode.configure_interface(self._uci, net)
RunConfigureInterface ==
    /\ pc = "interface"
    /\ commands' = commands \o (IF create_bridge_mode(hw) = "Swconfig"
                                THEN configure_interface(hw.switch, networks[net_index])
                                ELSE Dsa_configure_interface(networks[net_index]))
    /\ calls' = Append(calls, Call("configure_interface", networks[net_index].name))
    /\ pc' = "services"
    /\ UNCHANGED <<uci, shell, hw, cli_calls, raised, plan, networks, user_ports, result,
                   net_index,
                   proxy_cfg, wifi_table>>

\* lines 80-86: the DHCP, WiFi and firewall configurators are called for the
\* network with the role that get returned, and the WifiInfo of the WiFi
\* configurator is collected; then the loop goes on to the next network, or
\* is over
RunConfigureServices ==
    /\ pc = "services"
    /\ \E generated \in GeneratedPasswords :
         \E w \in {WiFiConfigurator_configure(uci, networks[net_index], generated)} :
           /\ commands' = commands
                  \o DhcpConfigurator_configure(networks[net_index], proxy_cfg, result.value[1])
                  \o w.cmds
                  \o FirewallConfigurator_configure(networks[net_index], result.value[1])
           /\ wifi_table' = IF w.info = NoWifiInfo THEN wifi_table
                            ELSE Append(wifi_table, w.info)
    /\ calls' = calls \o <<Call("dhcp.configure", networks[net_index].name),
                           Call("wifi.configure", networks[net_index].name),
                           Call("firewall.configure", networks[net_index].name)>>
    /\ net_index' = net_index + 1
    /\ pc' = IF net_index = Len(networks) THEN "commit" ELSE "role"
    /\ UNCHANGED <<uci, shell, hw, cli_calls, raised, plan, networks, user_ports, result,
                   proxy_cfg>>

\* a variant that commits from a finally block, so also after an abort
RunCommit_AlsoAfterAbort ==
    /\ pc \in {"commit", "aborted"}
    /\ commands' = commands \o _commit(uci)
    /\ calls' = Append(calls, Call("_commit", <<>>))
    /\ pc' = "done"
    /\ UNCHANGED <<uci, shell, hw, cli_calls, raised, plan, networks, user_ports, result,
                   net_index,
                   proxy_cfg, wifi_table>>

\* line 89: self._commit()
RunCommit ==
    /\ pc = "commit"
    /\ commands' = commands \o _commit(uci)
    /\ calls' = Append(calls, Call("_commit", <<>>))
    /\ pc' = "done"
    /\ UNCHANGED <<uci, shell, hw, cli_calls, raised, plan, networks, user_ports, result,
                   net_index,
                   proxy_cfg, wifi_table>>

NextRun ==
    \/ RunDetectHardware
    \/ RunAllocatePorts
    \/ RunConfigureBase
    \/ RunGetRole
    \/ RunConfigureVlan
    \/ RunConfigureInterface
    \/ RunConfigureServices
    \/ RunCommit

SpecRun == InitRun /\ [][NextRun]_vars

---------------------------------------------------------------------------
(* SpecDsaVlan: one call of DsaBridgeMode.configure_vlan                   *)

InitDsaVlan ==
    /\ pc = "start"
    /\ net_index = 0
    /\ calls = <<>>
    /\ proxy_cfg = NoProxy
    /\ wifi_table = <<>>
    /\ hw \in DsaProfiles(MaxPorts)
    /\ \E vid \in VlanIds, ports \in SeqUpTo(Tokens, MaxTokens) :
           networks = <<NetworkConfig(NetName(1), vid, Proxy, ports)>>
    /\ plan = networks
    /\ commands = <<>>
    /\ user_ports = <<>>
    /\ result = IdleResult
    /\ raised = "none"
    /\ uci = IdleUci
    /\ shell = IdleShell
    /\ cli_calls = 0

DsaConfigureVlan ==
    /\ pc = "start"
    /\ \E r \in {Dsa_configure_vlan(networks[1], hw)} :
           /\ commands' = commands \o r.cmds
           /\ raised' = r.exc
           /\ pc' = IF r.exc = "none" THEN "configured" ELSE "failed"
    /\ UNCHANGED <<uci, shell, hw, cli_calls, plan, networks, user_ports, result,
                   net_index, calls,
                   proxy_cfg, wifi_table>>

NextDsaVlan == DsaConfigureVlan

SpecDsaVlan == InitDsaVlan /\ [][NextDsaVlan]_vars

---------------------------------------------------------------------------
(* SpecBase: detect_hardware, then configure_base of the strategy created  *)
(* for the profile, as run() calls them (orchestrator.py lines 54-70)      *)

ConfigureBase ==
    /\ pc = "detected"
    /\ commands' = commands \o (IF create_bridge_mode(hw) = "Swconfig"
                                THEN configure_base(hw.switch)
                                ELSE Dsa_configure_base(hw))
    /\ pc' = "based"
    /\ UNCHANGED <<uci, shell, hw, cli_calls, raised, plan, networks, user_ports, result,
                   net_index, calls,
                   proxy_cfg, wifi_table>>

NextBase ==
    \/ Detect
    \/ ConfigureBase

SpecBase == InitDetect /\ [][NextBase]_vars

---------------------------------------------------------------------------
(* SpecAgree: detect_hardware, _auto_allocate_ports on a plan without      *)
(* pinned ports, then configure_vlan of the selected strategy for each     *)
(* network in plan order (orchestrator.py lines 54, 64, 73-78)             *)

\* plans whose networks all come without ports
UnpinnedPlans ==
    UNION {SharedLists(nets) :
           nets \in UNION {{[i \in 1..n |-> NetworkConfig(NetName(i), v[i], Proxy, <<>>)] :
                              v \in [1..n -> VlanIds]} : n \in 0..MaxAgreeNets}}

\* the list the selected strategy resolves tokens against:
\* bridge_modes.py line 85 (hw.lan_ports) and line 164 (sw.lan_ports)
StrategyLanPorts(h) ==
    IF create_bridge_mode(h) = "Swconfig" THEN h.switch.lan_ports ELSE h.lan_ports

InitAgree ==
    /\ pc = "start"
    /\ net_index = 0
    /\ calls = <<>>
    /\ proxy_cfg = NoProxy
    /\ wifi_table = <<>>
    /\ \/ /\ uci = [is_export |-> TRUE, answers |-> IdleUci.answers]
          /\ shell = IdleShell
       \/ /\ \E marker \in {None, BridgeVlanMarker}, ports \in DsaPortTexts,
                lan_dev \in {None, <<"e", "t", "h", "2", " ", "e", "t", "h", "1">>} :
                uci = [is_export |-> FALSE,
                       answers |-> DsaAnswers(None, marker, None, None, ports, lan_dev)]
          /\ shell = IdleShell
       \/ /\ \E symbols \in SeqUpTo({<<"0">>, <<"1">>, <<"2">>, <<"5", "t">>, Break}, MaxPorts),
                has_wan_vlan \in BOOLEAN :
                uci = [is_export |-> FALSE,
                       answers |-> SwconfigAnswers(<<Switch0, None, None, None>>, symbols,
                                                   has_wan_vlan)]
          /\ shell \in {IdleShell,
                        [raises |-> "none", returncode |-> 0, stdout |-> CliOutput(<<5, 0>>)]}
    /\ hw = NoHardware
    /\ cli_calls = 0
    /\ raised = "none"
    /\ plan \in UnpinnedPlans
    /\ networks = plan
    /\ user_ports = <<>>
    /\ result = IdleResult
    /\ commands = <<>>

\* line 64: self._auto_allocate_ports(networks, hw)
AllocateDetected ==
    /\ pc = "detected"
    /\ networks' = _auto_allocate_ports(networks, hw)
    /\ pc' = "allocated"
    /\ UNCHANGED <<uci, shell, hw, cli_calls, raised, plan, user_ports, result, commands,
                   net_index, calls,
                   proxy_cfg, wifi_table>>

\* line 78: bridge_mode.configure_vlan(self._uci, net, hw) for the next
\* network; result keeps what _resolve_ports returned to it
ConfigureVlanAllocated ==
    /\ pc = "allocated"
    /\ net_index < Len(networks)
    /\ \E net \in {networks[net_index + 1]} :
         \E r \in {IF create_bridge_mode(hw) = "Swconfig"
                   THEN configure_vlan(hw.switch, net)
                   ELSE Dsa_configure_vlan(net, hw)} :
           /\ commands' = commands \o r.cmds
           /\ raised' = r.exc
           /\ result' = IF net.ports = <<>> THEN IdleResult
                        ELSE _resolve_ports(net.ports, StrategyLanPorts(hw))
           /\ pc' = IF r.exc = "none" THEN "allocated" ELSE "failed"
    /\ net_index' = net_index + 1
    /\ UNCHANGED <<uci, shell, hw, cli_calls, plan, networks, user_ports, calls,
                   proxy_cfg, wifi_table>>

NextAgree ==
    \/ Detect
    \/ AllocateDetected
    \/ ConfigureVlanAllocated

SpecAgree == InitAgree /\ [][NextAgree]_vars

---------------------------------------------------------------------------
(* Claims                                                                  *)

\* the text of an available port of profile h: str(port)
PortText(h, port) == IF h.mode = "swconfig" THEN Str(port) ELSE port

\* token tok is "lan<k>" or "lan<k>:t"
IsLanToken(tok, k) == tok = LanName(k) \/ tok = LanName(k) \o <<":", "t">>
LanIndices == -1..(MaxPorts + 1)
AllLanTokens(ports) ==
    \A i \in 1..Len(ports) : \E k \in LanIndices : IsLanToken(ports[i], k)
LanIndexOf(tok) == CHOOSE k \in LanIndices : IsLanToken(tok, k)

\* C1: for a list of tokens "lan<k>" / "lan<k>:t" the resolver returns, in
\* order, available[k-1] for exactly the tokens with 1 <= k <= N; a token
\* with k < 1 or k > N yields no pair.
C1_IndexRule ==
    (pc = "resolved" /\ AllLanTokens(user_ports)) =>
        LET available == AvailablePorts(hw)
            InRange(tok) == 1 <= LanIndexOf(tok) /\ LanIndexOf(tok) <= Len(available)
            kept == SelectSeq(user_ports, InRange)
        IN  /\ result.exc = "none"
            /\ Len(result.value) = Len(kept)
            /\ \A i \in 1..Len(kept) :
                   /\ result.value[i][1] = available[LanIndexOf(kept[i])]
                   /\ result.value[i][2] = EndsWith(kept[i], <<":", "t">>)

\* C1 witness: "lan2" resolves to the second of [2,3,4], "lan4:t" is dropped
C1_Witness ==
    /\ pc = "resolved"
    /\ hw.mode = "swconfig"
    /\ AvailablePorts(hw) = <<2, 3, 4>>
    /\ user_ports = <<LanName(2), LanName(4) \o <<":", "t">>>>
    /\ result.value = <<<<3, FALSE>>>>

\* C2 (as claimed): a token whose base equals an available port literally
\* ("2" against [1,2,3], "eth2" against [eth1,eth2,eth3]) resolves to that
\* port with the token's tag flag.
C2_LiteralRule ==
    pc = "resolved" =>
        \A i \in 1..Len(user_ports) :
            \A j \in 1..Len(AvailablePorts(hw)) :
                \A tagged \in BOOLEAN :
                    LET port == AvailablePorts(hw)[j]
                        tok == PortText(hw, port) \o (IF tagged THEN <<":", "t">> ELSE <<>>)
                    IN  user_ports[i] = tok =>
                            \E r \in 1..Len(result.value) : result.value[r] = <<port, tagged>>

\* the tokens of the input pool that name an index in range: "lan<k>" or
\* "Lan<k>", with or without the tag suffix, 1 <= k <= N
Resolvable(tok, n) ==
    \E k \in 1..n : \E x \in TokenSuffixes :
        tok = LanName(k) \o x \/ tok = <<"L", "a", "n">> \o Str(k) \o x

\* C10: the resolver returns normally for every token list, and every token
\* that names an index in range contributes its pair whatever unparsable or
\* out-of-range tokens stand before or after it.
C10_NeverRaises ==
    pc = "resolved" =>
        /\ raised = "none"
        /\ result.exc = "none"
        /\ Len(result.value) =
               Cardinality({i \in 1..Len(user_ports) :
                               Resolvable(user_ports[i], Len(AvailablePorts(hw)))})

\* C10 witness: "lanx" (int() raises ValueError) is dropped, "lan1" after it
\* is resolved
C10_Witness ==
    /\ pc = "resolved"
    /\ user_ports = <<Lan \o <<"x">>, LanName(1)>>
    /\ AvailablePorts(hw) = <<EthName(1), EthName(2)>>
    /\ result.value = <<<<EthName(1), FALSE>>>>

\* the LAN ports the detector found for profile h (the chip's in switch-chip
\* mode), and the allocation targets of the plan as loaded
DetectedLanPorts(h) == IF h.mode = "swconfig" THEN h.switch.lan_ports ELSE h.lan_ports
Min(a, b) == IF a <= b THEN a ELSE b
Surplus(m, p) == [i \in 1..(p - m) |-> LanName(m + i)]

\* C3 (as claimed): with M networks without ports and P detected LAN ports,
\* the i-th target holds "lan<i>" for i <= min(M,P) and nothing for i > P;
\* when P > M the tokens lan<M+1>..lan<P> are appended in ascending order to
\* the first network with vlan_id 1, if there is one.
C3_CountAndOrder ==
    pc = "allocated" =>
        LET targets == Targets(plan)
            M == Len(targets)
            P == Len(DetectedLanPorts(hw))
            v == Vlan1Net(plan)
            extra(n) == IF n = v /\ P > M THEN Surplus(M, P) ELSE <<>>
        IN  /\ \A i \in 1..M :
                   networks[targets[i]].ports =
                       (IF i <= Min(M, P) THEN <<LanName(i)>> ELSE <<>>) \o extra(targets[i])
            /\ \A n \in 1..Len(plan) :
                   plan[n].ports # <<>> => networks[n].ports = plan[n].ports \o extra(n)

\* C4 (as claimed): for a switch-chip profile (hw.lan_ports empty, the chip
\* with P >= 1 LAN ports) the first min(M,P) targets hold lan1..lan<min(M,P)>
\* as for a DSA profile with P ports.
C4_ParadigmIndependent ==
    (pc = "allocated" /\ hw.mode = "swconfig" /\ Len(hw.switch.lan_ports) >= 1) =>
        LET targets == Targets(plan)
            P == Len(hw.switch.lan_ports)
        IN  \A i \in 1..Min(Len(targets), P) :
                /\ networks[targets[i]].ports # <<>>
                /\ Head(networks[targets[i]].ports) = LanName(i)

\* the port scan of the declared VLAN port strings, and the LAN candidates it
\* leaves once the WAN port is taken out
DeclaredScan == ScanVlanPorts(AllVlanPorts(query(uci, "show network | grep 'switch_vlan.*ports='")))
Candidates ==
    FindWanPort(query(uci, "get network.@switch_vlan[1].ports"), DeclaredScan.lan_ports).lan_ports
SwitchChipPath == ~uci.is_export /\ _detect_is_swconfig(uci)

\* C5: in switch-chip detection, when the declared VLAN port strings leave
\* two or more LAN candidates after the WAN port is removed, the secondary
\* probe is not invoked and the returned LAN list is those candidates, sorted.
C5_GhostPortGuard ==
    (pc # "start" /\ SwitchChipPath /\ DeclaredScan.exc = "none" /\ Len(Candidates) >= 2) =>
        /\ pc = "detected"
        /\ cli_calls = 0
        /\ hw.switch.lan_ports = SortInt(Candidates)

\* C5 witness: ports 2 and 1 are declared, the chip would enumerate ports
\* 0..5, and the profile holds [1, 2] without a probe
C5_Witness ==
    /\ pc = "detected"
    /\ SwitchChipPath
    /\ Candidates = <<2, 1>>
    /\ shell = [raises |-> "none", returncode |-> 0, stdout |-> CliOutput(<<0, 1, 2, 3, 4, 5>>)]
    /\ cli_calls = 0
    /\ hw.switch.lan_ports = <<1, 2>>

\* C6 (as claimed): detection returns a profile for every set of query
\* answers and every outcome of the shell probe; no exception leaves it.
C6_NeverFails ==
    pc # "start" => (pc = "detected" /\ raised = "none" /\ hw.mode \in {"dsa", "swconfig"})

\* C7 (as claimed): in every switch-chip profile returned, neither the CPU
\* port nor the WAN port is one of the LAN ports.
C7_CpuWanNotLan ==
    (pc = "detected" /\ hw.mode = "swconfig") =>
        \A i \in 1..Len(hw.switch.lan_ports) :
            /\ hw.switch.lan_ports[i] # hw.switch.cpu_port
            /\ hw.switch.lan_ports[i] # hw.switch.wan_port

\* C8: the LAN ports of a returned profile are ascending: DSA interface names
\* in str order, switch-chip port numbers strictly (no duplicates).
C8_SortedLanPorts ==
    pc = "detected" =>
        /\ hw.mode = "dsa" =>
               \A i \in 1..Len(hw.lan_ports) : \A j \in 1..Len(hw.lan_ports) :
                   i < j => ~StrLess(hw.lan_ports[j], hw.lan_ports[i])
        /\ hw.mode = "swconfig" =>
               \A i \in 1..Len(hw.switch.lan_ports) : \A j \in 1..Len(hw.switch.lan_ports) :
                   i < j => hw.switch.lan_ports[i] < hw.switch.lan_ports[j]

\* C8 witness: the declared ports are collected as 2, 1 and returned as 1, 2
C8_Witness ==
    /\ pc = "detected"
    /\ hw.mode = "swconfig"
    /\ SwitchChipPath
    /\ DeclaredScan.lan_ports = <<2, 1>>
    /\ hw.switch.lan_ports = <<1, 2>>

\* the pairs expected of a token list: "lan<k>" or "Lan<k>", 1 <= k <= N,
\* names available[k-1], tagged when it carries the suffix; nothing else of
\* the token pool names a port by index
ExpectedVals(ports, available) ==
    LET named(tok) == Resolvable(tok, Len(available))
        index(tok) == CHOOSE k \in 1..Len(available) : \E x \in TokenSuffixes :
                          tok = LanName(k) \o x \/ tok = <<"L", "a", "n">> \o Str(k) \o x
        kept == SelectSeq(ports, named)
    IN  [i \in 1..Len(kept) |->
            Str(available[index(kept[i])])
                \o (IF Contains(kept[i], <<":", "t">>) THEN <<"t">> ELSE <<>>)]

\* C9: the port string of a switch_vlan entry ends with the token
\* "<cpu_port>t".  Before it stand: the resolved tokens of the entry's port
\* list in order, "<port>t" if tagged else "<port>", when the list is not
\* empty; else every LAN port of the chip when vlan_id is 1; else nothing
\* (the string is exactly "<cpu_port>t").  Tokens are separated by one blank.
C9_PortString ==
    pc = "configured" =>
        LET net == networks[1]
            sw == hw.switch
            cpu == Str(sw.cpu_port) \o <<"t">>
            ports_str == commands[Len(commands)].value
            members == IF net.ports # <<>> THEN ExpectedVals(net.ports, sw.lan_ports)
                       ELSE IF net.vlan_id = 1
                       THEN [i \in 1..Len(sw.lan_ports) |-> Str(sw.lan_ports[i])]
                       ELSE <<>>
        IN  /\ commands[Len(commands)].key = "network.@switch_vlan[-1].ports"
            /\ Split(ports_str) = members \o <<cpu>>
            /\ (members # <<>> \/ (net.ports = <<>> /\ net.vlan_id # 1)) =>
                   ports_str = Join(members \o <<cpu>>, <<" ">>)

\* C9 witness: ports lan1 and lan2:t on the chip with LAN 1, 2, 3 and CPU 5
\* give "1 2t 5t"
C9_Witness ==
    /\ pc = "configured"
    /\ hw.switch.lan_ports = <<1, 2, 3>>
    /\ hw.switch.cpu_port = 5
    /\ networks[1].ports = <<LanName(1), LanName(2) \o <<":", "t">>>>
    /\ commands[Len(commands)].value = <<"1", " ", "2", "t", " ", "5", "t">>

\* the 1-based index a resolvable token names
IndexNamed(tok, n) ==
    CHOOSE k \in 1..n : \E x \in TokenSuffixes :
        tok = LanName(k) \o x \/ tok = <<"L", "a", "n">> \o Str(k) \o x

\* the tokens of a list that name an index in range, in input order
ResolvableTokens(ports, n) == SelectSeq(ports, LAMBDA tok : Resolvable(tok, n))

\* C11: the result is, in input order, one pair per resolvable input token;
\* a token that occurs n times contributes n pairs.
C11_OrderKeptNoDedup ==
    pc = "resolved" =>
        LET available == AvailablePorts(hw)
            kept == ResolvableTokens(user_ports, Len(available))
        IN  /\ Len(result.value) = Len(kept)
            /\ \A i \in 1..Len(kept) :
                   result.value[i][1] = available[IndexNamed(kept[i], Len(available))]

\* C11 witness: "lan2" twice gives the second port twice
C11_Witness ==
    /\ pc = "resolved"
    /\ user_ports = <<LanName(2), LanName(2)>>
    /\ hw.mode = "swconfig"
    /\ AvailablePorts(hw) = <<1, 2, 3>>
    /\ result.value = <<<<2, FALSE>>, <<2, FALSE>>>>

\* C13 (as claimed): the flag of a resolved token is true exactly when the
\* token carries the suffix ":t"; the port does not depend on the flag.
C13_TagFlag ==
    pc = "resolved" =>
        LET available == AvailablePorts(hw)
            kept == ResolvableTokens(user_ports, Len(available))
        IN  Len(result.value) = Len(kept) =>
                \A i \in 1..Len(kept) :
                    /\ result.value[i][2] = EndsWith(kept[i], <<":", "t">>)
                    /\ result.value[i][1] = available[IndexNamed(kept[i], Len(available))]

\* C17 (as claimed): a token whose base is the name of an available port and
\* also matches "lan<N>" resolves to the port of that name ("lan2" against
\* [lan2, lan3] gives lan2).
C17_LiteralFirst ==
    (pc = "resolved" /\ hw.mode = "dsa") =>
        \A i \in 1..Len(user_ports) : \A j \in 1..Len(hw.lan_ports) :
            (user_ports[i] = hw.lan_ports[j] /\ StartsWith(user_ports[i], Lan)) =>
                \E r \in 1..Len(result.value) : result.value[r] = <<hw.lan_ports[j], FALSE>>

\* C14 (as claimed): a network whose port list is non-empty in the plan keeps
\* its tokens as a prefix of its final list and is given no target index; when
\* it is the VLAN 1 network it also receives, after its own tokens, every
\* index the targets left over (P detected LAN ports, M targets).
C14_PinnedNetworks ==
    pc = "allocated" =>
        LET M == Len(Targets(plan))
            P == Len(DetectedLanPorts(hw))
        IN  \A n \in 1..Len(plan) :
                plan[n].ports # <<>> =>
                    IF n = Vlan1Net(plan)
                    THEN networks[n].ports =
                             plan[n].ports \o (IF P > M THEN Surplus(M, P) ELSE <<>>)
                    ELSE /\ Len(networks[n].ports) >= Len(plan[n].ports)
                         /\ SubSeq(networks[n].ports, 1, Len(plan[n].ports)) = plan[n].ports
                         /\ plan[n].vlan_id # 1 => networks[n].ports = plan[n].ports

\* C15: when the sink is in export mode, detection returns the fixed profile
\* (mode DSA, WAN "eth0", LAN ports "eth1" and "eth2", no chip) and issues no
\* query and no shell probe.
C15_ExportTier ==
    (pc # "start" /\ uci.is_export) =>
        /\ pc = "detected"
        /\ hw = HardwareInfo("dsa", EthName(0), <<EthName(1), EthName(2)>>, NoSwitch)
        /\ commands = <<>>
        /\ cli_calls = 0

\* C15 witness: an export sink whose shell would enumerate the ports 0..5;
\* detection has returned the fixed profile without a query
C15_Witness ==
    /\ pc = "detected"
    /\ uci.is_export
    /\ shell = [raises |-> "none", returncode |-> 0, stdout |-> CliOutput(<<0, 1, 2, 3, 4, 5>>)]
    /\ hw.lan_ports = <<EthName(1), EthName(2)>>
    /\ commands = <<>>

\* the secondary probe as the shell answers it: it succeeded with the ports H
ProbeSucceeded == shell.raises = "none" /\ shell.returncode = 0
ProbedPorts == ParseCliPorts(shell.stdout)

\* C18 (as claimed): in switch-chip detection, when at most one LAN candidate
\* is left and the secondary probe succeeds with a non-empty port set H, the
\* LAN ports are H without the CPU and WAN ports, and [1,2,3,4] when that
\* difference is empty.
C18_GhostPortReplacement ==
    (/\ pc # "start" /\ SwitchChipPath /\ DeclaredScan.exc = "none"
     /\ Len(Candidates) <= 1 /\ ProbeSucceeded /\ ProbedPorts # <<>>) =>
        /\ pc = "detected"
        /\ LET difference == SelectSeq(ProbedPorts, LAMBDA p : p # hw.switch.cpu_port
                                                              /\ p # hw.switch.wan_port)
           IN  hw.switch.lan_ports = IF difference = <<>> THEN <<1, 2, 3, 4>> ELSE difference

\* C19 (as claimed): when at most one LAN candidate is left and the shell
\* probe fails (it raises, never ends, or exits non-zero) or returns no port,
\* detection returns and the LAN ports are the candidates, or [1,2,3,4] when
\* there is none.
C19_ProbeFailureNoData ==
    (/\ pc # "start" /\ SwitchChipPath /\ DeclaredScan.exc = "none"
     /\ Len(Candidates) <= 1 /\ (~ProbeSucceeded \/ ProbedPorts = <<>>)) =>
        /\ pc = "detected"
        /\ raised = "none"
        /\ hw.switch.lan_ports = IF Candidates = <<>> THEN <<1, 2, 3, 4>> ELSE Candidates

\* C20: on a live target a returned profile has mode switch-chip exactly when
\* the switch marker query answered non-empty text, whatever the bridge-vlan
\* marker query answered; otherwise it is the profile of the DSA probing, with
\* or without the bridge-vlan marker.
C20_ParadigmClassification ==
    (pc = "detected" /\ ~uci.is_export) =>
        /\ hw.mode = "swconfig" <=>
               uci.answers["show network | grep '=switch'"] \notin {None, <<>>}
        /\ hw.mode # "swconfig" => (hw.mode = "dsa" /\ hw = _detect_dsa(uci))

\* C20 witness: a live target with both a switch section and a bridge-vlan
\* section, detected as switch-chip
C20_Witness ==
    /\ pc = "detected"
    /\ ~uci.is_export
    /\ uci.answers["show network | grep '=switch'"] = SwitchMarker
    /\ uci.answers["show network | grep '=bridge-vlan'"] = BridgeVlanMarker
    /\ hw.mode = "swconfig"

\* the networks of the plan whose role is not registered
UnknownRoleNets == {n \in 1..Len(plan) : plan[n].role \notin {Proxy, Clean, Isolate}}

\* C16: when a network of the plan names a role that is not registered, the
\* run does not complete: it never gets past the role lookup of the first such
\* network and never commits, and once detection has returned a profile the
\* exception that ends it is the ValueError that names the role.
C16_UnknownRoleFatal ==
    UnknownRoleNets # {} =>
        LET first == CHOOSE n \in UnknownRoleNets : \A m \in UnknownRoleNets : n <= m
        IN  /\ pc \notin {"commit", "done"}
            /\ \A i \in 1..Len(commands) : commands[i].op # "commit"
            /\ net_index <= first
            /\ net_index = first => pc \in {"role", "aborted"}
            /\ (pc = "aborted" /\ hw # NoHardware) =>
                   /\ net_index = first
                   /\ raised = "ValueError"
                   /\ result.exc = "ValueError"
                   /\ result.value[1] = plan[first].role

\* C16 witness: on the switch-chip target the first network was configured,
\* the second names the role "guest", and the run ended with the ValueError
\* naming it, nothing committed
C16_Witness ==
    /\ pc = "aborted"
    /\ hw.mode = "swconfig"
    /\ Len(plan) = 2
    /\ plan[1].role = Proxy
    /\ plan[2].role = Guest
    /\ net_index = 2
    /\ raised = "ValueError"
    /\ result.value = <<Guest, Join(<<Clean, Isolate, Proxy>>, <<",", " ">>)>>
    /\ \E i \in 1..Len(calls) : calls[i] = Call("configure_interface", NetName(1))
    /\ \A i \in 1..Len(commands) : commands[i].op # "commit"

\* C21 (as claimed): every profile detection returns is populated according
\* to its mode: mode DSA has a non-empty lan_ports and no chip, mode switch-chip has an
\* empty lan_ports and a chip with a non-empty LAN port list; and the factory
\* creates the switch-chip strategy exactly when the mode is switch-chip and a
\* chip is present, the DSA strategy otherwise.
C21_ProfileShape ==
    pc = "detected" =>
        /\ hw.mode \in {"dsa", "swconfig"}
        /\ hw.mode = "dsa" => (hw.lan_ports # <<>> /\ hw.switch = NoSwitch)
        /\ hw.mode = "swconfig" =>
               (hw.lan_ports = <<>> /\ hw.switch # NoSwitch /\ hw.switch.lan_ports # <<>>)
        /\ create_bridge_mode(hw) = "Swconfig" <=> (hw.mode = "swconfig" /\ hw.switch # NoSwitch)
        /\ create_bridge_mode(hw) = "DSA" <=> hw.mode = "dsa"

\* the calls run() made to the bridge strategy, in order, and the two calls
\* it owes each network of the plan, in declaration order
BridgeCalls ==
    SelectSeq(calls, LAMBDA c : c.fn \in {"configure_base", "configure_vlan", "configure_interface"})
PerNetworkCalls ==
    LET pairs[n \in 0..Len(plan)] ==
            IF n = 0 THEN <<>>
            ELSE pairs[n - 1] \o <<Call("configure_vlan", plan[n].name),
                                   Call("configure_interface", plan[n].name)>>
    IN  pairs[Len(plan)]

\* C22: in a run that completes, configure_base is called once and before
\* any call made for a network; then for each network in declaration order
\* configure_vlan is called once, with configure_interface for the same
\* network as the next bridge strategy call; and _commit is called once, after
\* every call made for a network.
C22_StrategyCallOrder ==
    pc = "done" =>
        /\ BridgeCalls = <<Call("configure_base", <<>>)>> \o PerNetworkCalls
        /\ \A i, j \in 1..Len(calls) :
               (calls[i].fn = "configure_base" /\ calls[j].net # <<>>) => i < j
        /\ calls[Len(calls)] = Call("_commit", <<>>)
        /\ \A i \in 1..(Len(calls) - 1) : calls[i].fn # "_commit"

\* C22 witness: a completed run over two networks on the live DSA target
C22_Witness ==
    /\ pc = "done"
    /\ hw.mode = "dsa"
    /\ ~uci.is_dry_run
    /\ Len(plan) = 2
    /\ BridgeCalls = <<Call("configure_base", <<>>),
                       Call("configure_vlan", NetName(1)), Call("configure_interface", NetName(1)),
                       Call("configure_vlan", NetName(2)), Call("configure_interface", NetName(2))>>
    /\ calls[Len(calls)].fn = "_commit"

\* the allocator has returned; the port lists of the networks
AllocatorReturned == \E i \in 1..Len(calls) : calls[i].fn = "_auto_allocate_ports"
PortLists(nets) == [i \in 1..Len(nets) |-> nets[i].ports]

\* C23: in every run, a step that calls configure_base or configure_vlan is
\* taken only after the allocator has returned, and from the moment the
\* allocator has returned no step of the run changes the port list of any
\* network.
C23_AllocationPrecedesReaders ==
    [][/\ (calls' # calls /\ calls'[Len(calls')].fn \in {"configure_base", "configure_vlan"})
           => AllocatorReturned
       /\ AllocatorReturned => PortLists(networks') = PortLists(networks)]_vars

\* C23 witness: a completed run whose allocator gave ports to a network of
\* the plan, and whose strategy then read them in configure_vlan
C23_Witness ==
    /\ pc = "done"
    /\ AllocatorReturned
    /\ PortLists(networks) # PortLists(plan)
    /\ \E i \in 1..Len(calls) : calls[i].fn = "configure_vlan"

\* the physical members of the bridge-vlan entries sent to the sink
BridgeVlanMembers ==
    LET adds == SelectSeq(commands, LAMBDA c : c.op = "add_list"
                                               /\ c.key = "network.@bridge-vlan[-1].ports")
    IN  [i \in 1..Len(adds) |-> adds[i].value]

\* C24: the bridge-vlan entry DSA configure_vlan emits for a network carries
\* its VLAN id; its members are, when the network has ports, the resolved
\* ports in order, each as "<port>:t" if its tag flag is set and "<port>"
\* otherwise; else every detected LAN port untagged when the VLAN id is 1;
\* else none.
C24_DsaVlanMembership ==
    pc # "start" =>
        LET net == networks[1]
            resolved == _resolve_ports(net.ports, hw.lan_ports).value
        IN  /\ pc = "configured"
            /\ Len(SelectSeq(commands, LAMBDA c : c.op = "add")) = 1
            /\ \E i \in 1..Len(commands) :
                   commands[i] = [op |-> "set", key |-> "network.@bridge-vlan[-1].vlan",
                                  value |-> Str(net.vlan_id)]
            /\ BridgeVlanMembers =
                   IF net.ports # <<>>
                   THEN [i \in 1..Len(resolved) |->
                            IF resolved[i][2] THEN resolved[i][1] \o <<":", "t">>
                            ELSE resolved[i][1]]
                   ELSE IF net.vlan_id = 1 THEN hw.lan_ports
                   ELSE <<>>

\* C24 witness: ports lan1 and lan2:t of a network with VLAN id 2 on a bridge
\* of eth1, eth2, eth3 give the members eth1 and eth2:t
C24_Witness ==
    /\ pc = "configured"
    /\ hw.lan_ports = <<EthName(1), EthName(2), EthName(3)>>
    /\ networks[1].vlan_id = 2
    /\ networks[1].ports = <<LanName(1), LanName(2) \o <<":", "t">>>>
    /\ BridgeVlanMembers = <<EthName(1), EthName(2) \o <<":", "t">>>>

\* the target named a WAN port: switch_vlan[1].ports holds an untagged number
WanDetected ==
    LET vlan2_ports == query(uci, "get network.@switch_vlan[1].ports")
        tokens == IF Truthy(vlan2_ports) THEN Split(vlan2_ports) ELSE <<>>
    IN  \E i \in 1..Len(tokens) : ~EndsWith(tokens[i], <<"t">>) /\ Int_(tokens[i]).ok

\* the positions in commands of the statements that set a switch_vlan entry's
\* VLAN id to vid
SwitchVlanEntries(vid) ==
    {i \in 1..Len(commands) :
        commands[i] = [op |-> "set", key |-> "network.@switch_vlan[-1].vlan", value |-> Str(vid)]}

\* C25 (as claimed): switch-chip configure_base emits a VLAN 2 entry exactly
\* when a WAN port was detected and differs from the CPU port, and its ports
\* are then "<wan_port> <cpu_port>t"; when no WAN port was detected or it is
\* the CPU port, configure_base emits no VLAN 2 entry.
C25_WanPreservation ==
    (pc = "based" /\ hw.mode = "swconfig") =>
        /\ SwitchVlanEntries(2) # {} <=>
               (WanDetected /\ hw.switch.wan_port # hw.switch.cpu_port)
        /\ \A i \in SwitchVlanEntries(2) :
               /\ i < Len(commands)
               /\ commands[i + 1] =
                      [op |-> "set", key |-> "network.@switch_vlan[-1].ports",
                       value |-> Str(hw.switch.wan_port) \o <<" ">>
                                 \o Str(hw.switch.cpu_port) \o <<"t">>]


\* C26 (as claimed): when no network of the plan has vlan_id 1, the indices
\* left in the pool after the targets are served go to no network: every
\* target (a network without ports in the plan) ends with at most one token,
\* and every network with pinned ports keeps exactly its list.
C26_LeftoversDiscarded ==
    (pc = "allocated" /\ \A n \in 1..Len(plan) : plan[n].vlan_id # 1) =>
        /\ Len(networks) = Len(plan)
        /\ \A n \in 1..Len(plan) :
               IF plan[n].ports = <<>>
               THEN Len(networks[n].ports) <= 1
               ELSE networks[n].ports = plan[n].ports

\* every token the user pinned in the plan, network after network
PinnedTokens ==
    LET flat[n \in 0..Len(plan)] == IF n = 0 THEN <<>> ELSE flat[n - 1] \o plan[n].ports
    IN  flat[Len(plan)]
PinnedDistinct ==
    \A a, b \in 1..Len(PinnedTokens) : PinnedTokens[a] = PinnedTokens[b] => a = b

\* C27 (as claimed): after allocation, for a plan whose pinned tokens are
\* pairwise distinct, no untagged token lan<i> occurs in the port lists of two
\* different networks, nor twice in the list of one network.
C27_NoDoubleAssignment ==
    (pc = "allocated" /\ PinnedDistinct) =>
        \A n, m \in 1..Len(networks) :
            \A a \in 1..Len(networks[n].ports), b \in 1..Len(networks[m].ports) :
                (/\ networks[n].ports[a] = networks[m].ports[b]
                 /\ ~EndsWith(networks[n].ports[a], <<":", "t">>))
                    => (n = m /\ a = b)


\* the physical ports the tokens of network n resolve to
ResolvedPorts(n) ==
    LET r == _resolve_ports(networks[n].ports, StrategyLanPorts(hw)).value
    IN  {r[a][1] : a \in 1..Len(r)}

\* C28 (as claimed): for a detected profile and a plan without pinned ports,
\* every token the allocator wrote is resolved by configure_vlan of the
\* selected strategy (no error, none dropped), and the tokens of two different
\* networks resolve to different physical ports.
C28_AllocatorResolverAgree ==
    (pc = "allocated" /\ net_index >= 1) =>
        /\ result.exc = "none"
        /\ Len(result.value) = Len(networks[net_index].ports)
        /\ \A n, m \in 1..net_index :
               n # m => ResolvedPorts(n) \cap ResolvedPorts(m) = {}


\* the run has stopped in the role lookup of some network
AbortedOnRole ==
    /\ pc = "aborted"
    /\ calls # <<>>
    /\ calls[Len(calls)].fn = "get"
NothingCommitted ==
    /\ \A i \in 1..Len(calls) : calls[i].fn # "_commit"
    /\ \A i \in 1..Len(commands) : commands[i].op # "commit"

\* C29: once a run has aborted on the role lookup of a network, at whatever
\* position in the plan, _commit has not been called and is never called
\* afterwards: no subsystem is committed, although statements for the base and
\* for earlier networks may already be in the sink.
C29_AbortCommitsNothing == [](AbortedOnRole => []NothingCommitted)

\* a live switch-chip run whose first network names the unregistered role:
\* the base statements have been sent, no network was configured, nothing is
\* committed
C29_Witness ==
    /\ AbortedOnRole
    /\ hw.mode = "swconfig"
    /\ ~uci.is_dry_run
    /\ Len(plan) = 2
    /\ plan[1].role = Guest
    /\ net_index = 1
    /\ \E i \in 1..Len(commands) : commands[i].op = "add"
    /\ \A i \in 1..Len(calls) : calls[i].fn # "configure_vlan"
    /\ NothingCommitted


\* C30 (as claimed): in a switch-chip run over a plan with pairwise distinct
\* vlan_ids, no two switch_vlan entries sent during the run (WAN preservation
\* in configure_base, configure_vlan per network) carry the same VLAN id.
C30_UniqueSwitchVlanIds ==
    (/\ hw.mode = "swconfig"
     /\ \A n, m \in 1..Len(plan) : plan[n].vlan_id = plan[m].vlan_id => n = m) =>
        \A vid \in RunVlanIds \cup {2} : Cardinality(SwitchVlanEntries(vid)) <= 1

===========================================================================
